---- MODULE Spec2Model ----
(***************************************************************************)
(* Facebook Messenger webhook receiver: conversation-state                 *)
(* reconciliation and reply dispatch (src/index.js, src/unnamed/part_00x). *)
(*                                                                         *)
(* Strings are sequences of one-character strings, so that split, trim,   *)
(* toLowerCase and includes are computed as the JavaScript code computes   *)
(* them.  A JavaScript value that may be null is a sequence of length at   *)
(* most one: Null is <<>>, the string s is <<s>>.                          *)
(***************************************************************************)
EXTENDS Integers, Sequences, FiniteSets

----------------------------------------------------------------------------
(* Bounds of the model                                                     *)

\* inbound events taken up and admin requests made, in all
MaxRequests == 2

\* lines of a table of keyword rules
MaxLines == 3

----------------------------------------------------------------------------
(* JavaScript string primitives                                            *)

Null == <<>>

Str(s) == <<s>>

\* JavaScript truthiness of a nullable string: null and "" are falsy
Truthy(v) == v # Null /\ v[1] # <<>>

\* a || b
OrElse(a, b) == IF Truthy(a) THEN a ELSE b

UpperChars == <<"A", "B", "C", "D", "E", "F", "G", "H", "I", "J", "K", "L", "M",
                "N", "O", "P", "Q", "R", "S", "T", "U", "V", "W", "X", "Y", "Z">>

LowerChars == <<"a", "b", "c", "d", "e", "f", "g", "h", "i", "j", "k", "l", "m",
                "n", "o", "p", "q", "r", "s", "t", "u", "v", "w", "x", "y", "z">>

ToLowerChar(c) ==
    IF \E i \in 1..26 : UpperChars[i] = c
    THEN LowerChars[CHOOSE i \in 1..26 : UpperChars[i] = c]
    ELSE c

\* String.prototype.toLowerCase
ToLowerCase(s) == [i \in 1..Len(s) |-> ToLowerChar(s[i])]

WhiteSpace == {" ", "\t", "\n", "\r"}

RECURSIVE TrimStart(_)
TrimStart(s) ==
    IF s # <<>> /\ Head(s) \in WhiteSpace THEN TrimStart(Tail(s)) ELSE s

RECURSIVE TrimEnd(_)
TrimEnd(s) ==
    IF s # <<>> /\ s[Len(s)] \in WhiteSpace
    THEN TrimEnd(SubSeq(s, 1, Len(s) - 1))
    ELSE s

\* String.prototype.trim
Trim(s) == TrimEnd(TrimStart(s))

\* d occurs in s at position i
OccursAt(s, d, i) ==
    /\ i >= 1
    /\ i + Len(d) - 1 <= Len(s)
    /\ SubSeq(s, i, i + Len(d) - 1) = d

\* String.prototype.includes: the empty string is included in every string
Includes(s, d) == \E i \in 1..(Len(s) + 1) : OccursAt(s, d, i)

\* String.prototype.indexOf, 1-based, 0 when d does not occur
IndexOf(s, d) ==
    IF Includes(s, d)
    THEN CHOOSE i \in 1..(Len(s) + 1) :
            /\ OccursAt(s, d, i)
            /\ \A j \in 1..(i - 1) : ~OccursAt(s, d, j)
    ELSE 0

\* String.prototype.split with a non-empty string separator
RECURSIVE Split(_, _)
Split(s, d) ==
    IF IndexOf(s, d) = 0
    THEN <<s>>
    ELSE <<SubSeq(s, 1, IndexOf(s, d) - 1)>>
            \o Split(SubSeq(s, IndexOf(s, d) + Len(d), Len(s)), d)

\* Array.prototype.join
RECURSIVE Join(_, _)
Join(parts, d) ==
    IF parts = <<>> THEN <<>>
    ELSE IF Len(parts) = 1 THEN parts[1]
    ELSE parts[1] \o d \o Join(Tail(parts), d)

\* Array.prototype.slice(1)
Slice1(parts) == SubSeq(parts, 2, Len(parts))

NewLine == <<"\n">>

Arrow == <<"-", ">">>

----------------------------------------------------------------------------
(* getKeywordReply                                                         *)

SentinelDefault == <<"d", "e", "f", "a", "u", "l", "t">>

SentinelElse == <<"e", "l", "s", "e">>

\* the loop body with the response taken from the second part alone
RECURSIVE ScanLines_SecondPart(_, _, _, _)
ScanLines_SecondPart(msg, lines, i, defaultResponse) ==
    IF i > Len(lines) THEN <<Null, defaultResponse>>
    ELSE
        LET parts == Split(lines[i], Arrow) IN
        IF Len(parts) < 2
        THEN ScanLines_SecondPart(msg, lines, i + 1, defaultResponse)
        ELSE
            LET keyword  == ToLowerCase(Trim(parts[1]))
                response == Trim(parts[2])
            IN  IF keyword = SentinelDefault \/ keyword = SentinelElse
                THEN ScanLines_SecondPart(msg, lines, i + 1, Str(response))
                ELSE IF Includes(msg, keyword)
                THEN <<Str(response), defaultResponse>>
                ELSE ScanLines_SecondPart(msg, lines, i + 1, defaultResponse)

\* the body of the for loop over the lines, from line i on, with the
\* loop's two accumulators; the result is <<matchedResponse, defaultResponse>>
RECURSIVE ScanLines(_, _, _, _)
ScanLines(msg, lines, i, defaultResponse) ==
    IF i > Len(lines) THEN <<Null, defaultResponse>>
    ELSE
        LET parts == Split(lines[i], Arrow) IN
        IF Len(parts) < 2 THEN ScanLines(msg, lines, i + 1, defaultResponse)
        ELSE
            LET keyword  == ToLowerCase(Trim(parts[1]))
                response == Trim(Join(Slice1(parts), Arrow))
            IN  IF keyword = SentinelDefault \/ keyword = SentinelElse
                THEN ScanLines(msg, lines, i + 1, Str(response))
                ELSE IF Includes(msg, keyword)
                THEN <<Str(response), defaultResponse>>
                ELSE ScanLines(msg, lines, i + 1, defaultResponse)

getKeywordReply(userMsg, rulesText) ==
    IF rulesText = <<>> THEN Null
    ELSE
        LET msg   == Trim(ToLowerCase(userMsg))
            lines == Split(rulesText, NewLine)
            scan  == ScanLines(msg, lines, 1, Null)
        IN  OrElse(scan[1], scan[2])

----------------------------------------------------------------------------
(* Identifiers, documents and inputs                                       *)

Digits == {"0", "1", "2", "3", "4", "5", "6", "7", "8", "9"}

\* an identifier is a JavaScript string or a JavaScript number; a number is
\* held as its canonical decimal digits
StringId(s) == [type |-> "string", v |-> s]

NumberId(s) == [type |-> "number", v |-> s]

\* id.toString(): the decimal digits of a number, the string itself otherwise
ToString(id) == StringId(id.v)

\* /^\d+$/.test(id), the argument coerced to a string
AllDigits(id) ==
    LET s == ToString(id).v
    IN  s # <<>> /\ \A i \in 1..Len(s) : s[i] \in Digits

RECURSIVE StripZeros(_)
StripZeros(s) ==
    IF Len(s) > 1 /\ Head(s) = "0" THEN StripZeros(Tail(s)) ELSE s

\* a parseInt that keeps the type of its argument
ParseInt_AsString(id) == ToString(id)

\* parseInt(id) of an identifier made of digits
ParseInt(id) == NumberId(StripZeros(ToString(id).v))

\* entry.id of the deliveries: the platform sends the page identifier as a
\* string of digits
PageId == StringId(<<"1", "0", "0">>)

PageIds == {PageId}

UserIds == {StringId(<<"7">>), StringId(<<"8">>)}

Pairs == PageIds \X UserIds

\* identifiers in both encodings: the strings and the numbers they denote
TypedIds(ids) == ids \cup {ParseInt(id) : id \in ids}

\* the keys a document of conversation_states may be stored under
StateKeys == TypedIds(PageIds) \X TypedIds(UserIds)

TextHi == <<"H", "i">>

TextX == <<"x">>

Texts == {TextHi, TextX}

RulesWithDefault ==
    <<"h", "i", " ", "-", ">", " ", "y", "o", "\n",
      "e", "l", "s", "e", " ", "-", ">", " ", "e", "h">>

RulesNoDefault == <<"h", "i", " ", "-", ">", " ", "y", "o">>

Token == <<"t", "o", "k">>

Names == {<<"A", "n", "n">>, <<"B", "o", "b">>}

\* the text of a manual reply
AdminText == <<"o", "p">>

\* the text the generative model returns
AiText == <<"o", "k">>

\* a document of the page_tokens collection
Doc(pid, tok, tokLower, prompt) ==
    [Page_ID |-> pid, Page_Name |-> Null, Access_Token |-> tok,
     access_token |-> tokLower, System_Prompt |-> prompt]

\* the contents of page_tokens the service may start with: the page
\* unknown, stored under the string or under the legacy numeric identifier,
\* with and without credential, with and without keyword rules
InitialRegistries ==
    { {},
      {Doc(PageId, Str(Token), Null, Str(RulesWithDefault))},
      {Doc(ParseInt(PageId), Str(Token), Null, Null)},
      {Doc(PageId, Null, Null, Str(RulesWithDefault))},
      {Doc(PageId, Null, Str(Token), Str(RulesNoDefault))} }

ConcurrentRegistries ==
    { {Doc(PageId, Str(Token), Null, Str(RulesWithDefault))},
      {Doc(ParseInt(PageId), Str(Token), Null, Null)} }

\* an event of entry.messaging, with the id of its entry
Event(page, sender, text) == [page |-> page, sender |-> sender, text |-> text]

Events(users, texts) ==
    { Event(pg, s, t) : pg \in PageIds, s \in users \cup PageIds,
                        t \in {Null} \cup {Str(x) : x \in texts} }

Procs == 1..2

----------------------------------------------------------------------------
(* State                                                                   *)

VARIABLES
    env,         \* what the platform and the dashboard send: the senders,
                 \* texts and names, and how many requests are in flight
    revision,    \* which revision runs: "generative" (src/index.js),
                 \* "keyword" (src/unnamed/part_003), "fallback"
                 \* (src/unnamed/part_002, which generates through a list
                 \* of models) or "earlier" (the second listing of
                 \* src/index.js, of which the routes toggle-ai and
                 \* ai-status are followed)
    pageTokens,  \* collection page_tokens
    messages,    \* collection messages, in insertion order
    convState,   \* collection conversation_states, by (pageId, userId)
    clock,       \* the value new Date() returns
    proc,        \* the requests being handled, by slot
    detached,    \* saveMessage calls started without await
    requests,    \* number of inbound events and admin requests taken up
    lookups,     \* name-lookup calls made, by (pageId, userId)
    sentAuto,    \* automated replies accepted by the send API, by pair
    sentAdmin,   \* manual replies accepted by the send API, by pair
    lastSet,     \* value of the latest toggle-ai call, by pair
    call         \* a call of getKeywordReply on its own: arguments and result

vars == <<env, revision, pageTokens, messages, convState, clock, proc, detached,
          requests, lookups, sentAuto, sentAdmin, lastSet, call>>

\* no document of conversation_states matches the pair
NoState ==
    [exists |-> FALSE, aiPaused |-> FALSE, lastInteraction |-> Null,
     userName |-> Null]

NoId == StringId(<<>>)

\* a property of a request body: left out (undefined), or given with a value
NotGiven == [given |-> FALSE, v |-> Null]

Given(v) == [given |-> TRUE, v |-> v]

\* a slot: the handler's position and locals, the locals of the saveMessage
\* call it awaits (role, text, token, ts, li, name), and what it has done so
\* far: logged counts the end-user records inserted for the current event,
\* looked the name-lookup calls of the current saveMessage call, passedSelf
\* tells that the delivery held an event sent by the page itself; of POST
\* /api/pages the locals name, token, persona and filter (of filterQuery);
\* status is the HTTP status the slot's request was answered with (200 for
\* a delivery from its acknowledgement on), 0 when there is none, and paused the value an ai-status request answered
IdleProc ==
    [kind |-> "idle", pc |-> "idle", pageId |-> NoId,
     userId |-> NoId, pageData |-> Null, role |-> "none", text |-> <<>>,
     reply |-> Null, token |-> Null, ts |-> 0, li |-> 0, name |-> Null,
     logged |-> 0, looked |-> 0, passedSelf |-> FALSE,
     persona |-> NotGiven, filter |-> NoId, status |-> 0, paused |-> Null,
     model |-> 0, attempts |-> 0, calls |-> 0, list |-> <<>>,
     outcome |-> "none", slept |-> FALSE, handled |-> 0]

\* the slot of an admin request that has ended with the given HTTP status,
\* which the slot shows until it takes up its next request
Responded(status) == [IdleProc EXCEPT !.status = status]

\* no call of getKeywordReply is being looked at
NoCall == [pc |-> "none", userMsg |-> <<>>, rulesText |-> <<>>, result |-> Null]

\* nothing overlaps: a request comes when the work of the one before is
\* over, and an event is taken up when the detached calls of the events
\* before it have ended; with every input
SequentialEnv ==
    [inFlight |-> 1, users |-> UserIds, texts |-> Texts, names |-> Names]

\* everything overlaps: requests come at any time, two are handled at a
\* time, and detached calls run alongside the events that follow; for one
\* end-user
ConcurrentEnv ==
    [inFlight |-> 2, users |-> {StringId(<<"7">>)}, texts |-> {TextHi},
     names |-> {<<"A", "n", "n">>}]

StartIn(e, registries, revisions) ==
    /\ env = e
    /\ revision \in revisions
    /\ pageTokens \in registries
    /\ messages = <<>>
    /\ convState = [pr \in StateKeys |-> NoState]
    /\ clock = 0
    /\ proc = [p \in Procs |-> IdleProc]
    /\ detached = <<>>
    /\ requests = 0
    /\ lookups = [pr \in Pairs |-> 0]
    /\ sentAuto = [pr \in Pairs |-> 0]
    /\ sentAdmin = [pr \in Pairs |-> 0]
    /\ lastSet = [pr \in Pairs |-> Null]

Start(e, registries) == StartIn(e, registries, {"generative", "keyword"})

Init == Start(SequentialEnv, InitialRegistries) /\ call = NoCall

InitConcurrent == Start(ConcurrentEnv, ConcurrentRegistries) /\ call = NoCall

----------------------------------------------------------------------------
(* Database and clock primitives                                           *)

\* the value a call of new Date() returns: every call reads a later time
\* than the calls before it
Now == clock + 1

\* collection(COL_TOKENS).findOne({ Page_ID: key }): the possible results
FindPage(key) ==
    LET matching == {d \in pageTokens : d.Page_ID = key}
    IN  IF matching = {} THEN {Null} ELSE {Str(d) : d \in matching}

\* pageData?.Access_Token
AccessTokenOf(pageData) ==
    IF pageData = Null THEN Null ELSE pageData[1].Access_Token

\* pageData.Access_Token || pageData.access_token
SmartTokenOf(pageData) ==
    IF pageData = Null THEN Null
    ELSE OrElse(pageData[1].Access_Token, pageData[1].access_token)

PairOf(rec) == <<ToString(rec.pageId), ToString(rec.userId)>>

\* the document insertOne adds to the messages collection
MessageRecord(rec, t) ==
    [pageId |-> ToString(rec.pageId), userId |-> ToString(rec.userId),
     sender |-> rec.role, text |-> rec.text, timestamp |-> t]

\* the update with aiPaused: false among the $set fields
Upserted_SetPaused(st, li, name) ==
    [exists |-> TRUE, aiPaused |-> FALSE, lastInteraction |-> Str(li),
     userName |-> IF Truthy(name) THEN name
                  ELSE IF st.exists THEN st.userName ELSE Null]

\* the update without the upsert option
Upserted_NoUpsert(st, li, name) ==
    IF st.exists
    THEN [st EXCEPT !.lastInteraction = Str(li),
                    !.userName = IF Truthy(name) THEN name ELSE @]
    ELSE st

\* updateOne(pair, { $set: updateData, $setOnInsert: { aiPaused: false } },
\* { upsert: true }) applied to the document st of the pair
Upserted(st, li, name) ==
    IF st.exists
    THEN [st EXCEPT !.lastInteraction = Str(li),
                    !.userName = IF Truthy(name) THEN name ELSE @]
    ELSE [exists |-> TRUE, aiPaused |-> FALSE, lastInteraction |-> Str(li),
          userName |-> IF Truthy(name) THEN name ELSE Null]

\* an update that inverts the stored flag of an existing document
Toggled_Flip(st, paused) ==
    IF st.exists
    THEN [st EXCEPT !.aiPaused = ~@]
    ELSE [exists |-> TRUE, aiPaused |-> paused, lastInteraction |-> Null,
          userName |-> Null]

\* updateOne(pair, { $set: { aiPaused: paused } }, { upsert: true })
Toggled(st, paused) ==
    IF st.exists
    THEN [st EXCEPT !.aiPaused = paused]
    ELSE [exists |-> TRUE, aiPaused |-> paused, lastInteraction |-> Null,
          userName |-> Null]

\* a read that takes a missing document for a paused conversation
PausedIn_DefaultPaused(st) == IF st.exists THEN st.aiPaused ELSE TRUE

\* state ? state.aiPaused : false
PausedIn(st) == IF st.exists THEN st.aiPaused ELSE FALSE

\* continue: the handler goes to the next event of the delivery
PopEvent(rec) ==
    [IdleProc EXCEPT !.kind = "webhook", !.pc = "loop",
                     !.passedSelf = rec.passedSelf, !.status = rec.status,
                     !.handled = rec.handled]

\* the call saveMessage(pageId, userId, sender, text, pageToken) begins
CallSave(rec, sender, text, pageToken) ==
    [rec EXCEPT !.pc = "insert", !.role = sender, !.text = text,
                !.token = pageToken, !.ts = 0, !.li = 0, !.name = Null,
                !.looked = 0]

----------------------------------------------------------------------------
(* POST /webhook                                                           *)

\* the environment lets the handling of requests overlap
Overlap == env.inFlight > 1

\* no request is being handled and no detached call is at work
Quiet == detached = <<>> /\ \A q \in Procs : proc[q].kind = "idle"

\* a request is taken up by the lowest free slot, while fewer than
\* env.inFlight requests are being handled
FreeSlot(p) ==
    /\ Overlap \/ Quiet
    /\ Cardinality({q \in Procs : proc[q].kind # "idle"}) < env.inFlight
    /\ proc[p].kind = "idle"
    /\ \A q \in Procs : q < p => proc[q].kind # "idle"

\* a delivery whose handler starts its loops without having answered
Deliver_Unacknowledged(p) ==
    /\ FreeSlot(p)
    /\ requests < MaxRequests
    /\ proc' = [proc EXCEPT ![p] = [IdleProc EXCEPT !.kind = "webhook",
                                        !.pc = "loop"]]
    /\ UNCHANGED <<call, env, revision, pageTokens, messages, convState, clock, detached,
                   requests, lookups, sentAuto, sentAdmin, lastSet>>

\* a delivery with object 'page' arrives and is acknowledged; its events
\* are handled in the background, one after the other.  The events of the
\* payload are drawn when the loop reaches them.
Deliver(p) ==
    /\ FreeSlot(p)
    /\ requests < MaxRequests
    /\ proc' = [proc EXCEPT ![p] = [IdleProc EXCEPT !.kind = "webhook",
                                        !.pc = "loop", !.status = 200]]
    /\ UNCHANGED <<call, env, revision, pageTokens, messages, convState, clock, detached,
                   requests, lookups, sentAuto, sentAdmin, lastSet>>

\* the loops over entry and entry.messaging are exhausted
HandlerDone(p) ==
    /\ proc[p].kind = "webhook" /\ proc[p].pc = "loop"
    /\ proc' = [proc EXCEPT ![p] = IdleProc]
    /\ UNCHANGED <<call, env, revision, pageTokens, messages, convState, clock, detached,
                   requests, lookups, sentAuto, sentAdmin, lastSet>>

\* the test without the comparison of the sender with the page
Skipped_TextOnly(e) == ~Truthy(e.text)

\* the event carries no text, or its sender is the page itself
Skipped(e) == ~Truthy(e.text) \/ e.sender = e.page

\* the next event of the payload is one the loop passes over
SkipEvent(p, e) ==
    /\ proc[p].kind = "webhook" /\ proc[p].pc = "loop"
    /\ Skipped(e)
    /\ proc' = [proc EXCEPT ![p] = [@ EXCEPT !.passedSelf =
                                        @ \/ e.sender = e.page]]
    /\ UNCHANGED <<call, env, revision, pageTokens, messages, convState, clock, detached,
                   requests, lookups, sentAuto, sentAdmin, lastSet>>

\* the next event of the payload is taken up: getPageData(pageId) is called
StartEvent(p, e) ==
    /\ proc[p].kind = "webhook" /\ proc[p].pc = "loop"
    /\ Overlap \/ detached = <<>>
    /\ requests < MaxRequests
    /\ ~Skipped(e)
    /\ proc' = [proc EXCEPT ![p] = [@ EXCEPT !.pc = "getPageStr",
                    !.pageId = e.page,
                    !.userId = e.sender, !.text = e.text[1],
                    !.handled = @ + 1]]
    /\ requests' = requests + 1
    /\ UNCHANGED <<call, env, revision, pageTokens, messages, convState, clock, detached,
                   lookups, sentAuto, sentAdmin, lastSet>>

\* what the caller of getPageData does with its result, up to its next await
AfterGetPage(rec, pageData) ==
    IF rec.kind = "webhook"
    THEN IF revision = "keyword"
         THEN IF pageData = Null
              THEN PopEvent(rec)
              ELSE CallSave([rec EXCEPT !.pageData = pageData], "user",
                            rec.text, SmartTokenOf(pageData))
         ELSE CallSave([rec EXCEPT !.pageData = pageData], "user",
                       rec.text, AccessTokenOf(pageData))
    ELSE LET tok == IF revision = "keyword" THEN SmartTokenOf(pageData)
                    ELSE AccessTokenOf(pageData)
         IN  IF ~Truthy(tok)
             THEN Responded(400)
             ELSE [rec EXCEPT !.pc = "adminSend", !.pageData = pageData,
                              !.token = tok]

\* getPageData: findOne({ Page_ID: pageId.toString() })
GetPageStr(p) ==
    /\ proc[p].pc = "getPageStr"
    /\ \E r \in FindPage(ToString(proc[p].pageId)) :
          proc' = [proc EXCEPT ![p] =
                      IF r # Null THEN AfterGetPage(@, r)
                      ELSE IF AllDigits(@.pageId)
                           THEN [@ EXCEPT !.pc = "getPageNum"]
                           ELSE AfterGetPage(@, Null)]
    /\ UNCHANGED <<call, env, revision, pageTokens, messages, convState, clock, detached,
                   requests, lookups, sentAuto, sentAdmin, lastSet>>

\* getPageData: findOne({ Page_ID: parseInt(pageId) })
GetPageNum(p) ==
    /\ proc[p].pc = "getPageNum"
    /\ \E r \in FindPage(ParseInt(proc[p].pageId)) :
          proc' = [proc EXCEPT ![p] = AfterGetPage(@, r)]
    /\ UNCHANGED <<call, env, revision, pageTokens, messages, convState, clock, detached,
                   requests, lookups, sentAuto, sentAdmin, lastSet>>

----------------------------------------------------------------------------
(* saveMessage                                                             *)

\* an insert that is left out when the collection holds a record of the
\* same conversation, sender and text
SaveInsert_Dedup(p) ==
    /\ proc[p].pc = "insert"
    /\ messages' =
          IF \E i \in 1..Len(messages) :
                [messages[i] EXCEPT !.timestamp = 0]
                   = MessageRecord(proc[p], 0)
          THEN messages
          ELSE Append(messages, MessageRecord(proc[p], Now))
    /\ clock' = Now
    /\ proc' = [proc EXCEPT ![p] = [@ EXCEPT !.pc = "resume", !.ts = Now,
                    !.logged = IF proc[p].role = "user" THEN @ + 1 ELSE @]]
    /\ UNCHANGED <<call, env, revision, pageTokens, convState, detached, requests,
                   lookups, sentAuto, sentAdmin, lastSet>>

\* a save that overwrites the latest record of the collection
SaveInsert_Overwrite(p) ==
    /\ proc[p].pc = "insert"
    /\ messages' =
          IF messages = <<>>
          THEN Append(messages, MessageRecord(proc[p], Now))
          ELSE [messages EXCEPT ![Len(messages)] = MessageRecord(proc[p], Now)]
    /\ clock' = Now
    /\ proc' = [proc EXCEPT ![p] = [@ EXCEPT !.pc = "resume", !.ts = Now,
                    !.logged = IF proc[p].role = "user" THEN @ + 1 ELSE @]]
    /\ UNCHANGED <<call, env, revision, pageTokens, convState, detached, requests,
                   lookups, sentAuto, sentAdmin, lastSet>>

\* insertOne into messages, with timestamp new Date()
SaveInsert(p) ==
    /\ proc[p].pc = "insert"
    /\ messages' = Append(messages, MessageRecord(proc[p], Now))
    /\ clock' = Now
    /\ proc' = [proc EXCEPT ![p] = [@ EXCEPT !.pc = "resume", !.ts = Now,
                    !.logged = IF proc[p].role = "user" THEN @ + 1 ELSE @]]
    /\ UNCHANGED <<call, env, revision, pageTokens, convState, detached, requests,
                   lookups, sentAuto, sentAdmin, lastSet>>

\* updateData built from a time read before the record's timestamp
SaveResume_Early(p) ==
    /\ proc[p].pc = "resume"
    /\ clock' = Now
    /\ proc' = [proc EXCEPT ![p] = [@ EXCEPT !.li = proc[p].ts - 1,
                    !.pc = IF proc[p].role = "user" /\ Truthy(proc[p].token)
                           THEN "findState" ELSE "upsert"]]
    /\ UNCHANGED <<call, env, revision, pageTokens, messages, convState, detached,
                   requests, lookups, sentAuto, sentAdmin, lastSet>>

\* updateData = { lastInteraction: new Date() }, then the choice of the
\* name-lookup branch
SaveResume(p) ==
    /\ proc[p].pc = "resume"
    /\ clock' = Now
    /\ proc' = [proc EXCEPT ![p] = [@ EXCEPT !.li = Now,
                    !.pc = IF proc[p].role = "user" /\ Truthy(proc[p].token)
                           THEN "findState" ELSE "upsert"]]
    /\ UNCHANGED <<call, env, revision, pageTokens, messages, convState, detached,
                   requests, lookups, sentAuto, sentAdmin, lastSet>>

\* the lookup made whatever existingState holds
SaveFindState_Always(p) ==
    /\ proc[p].pc = "findState"
    /\ proc' = [proc EXCEPT ![p] = [@ EXCEPT !.pc = "nameLookup"]]
    /\ UNCHANGED <<call, env, revision, pageTokens, messages, convState, clock, detached,
                   requests, lookups, sentAuto, sentAdmin, lastSet>>

\* existingState = findOne(pair); the lookup is needed when there is no
\* state or no userName
SaveFindState(p) ==
    /\ proc[p].pc = "findState"
    /\ LET existingState == convState[PairOf(proc[p])]
       IN  proc' = [proc EXCEPT ![p] = [@ EXCEPT !.pc =
                        IF ~existingState.exists \/ ~Truthy(existingState.userName)
                        THEN "nameLookup" ELSE "upsert"]]
    /\ UNCHANGED <<call, env, revision, pageTokens, messages, convState, clock, detached,
                   requests, lookups, sentAuto, sentAdmin, lastSet>>

\* getUserProfile called again after a failure
SaveNameLookup_Retry(p) ==
    /\ proc[p].pc = "nameLookup"
    /\ \E n \in {Null} \cup {Str(x) : x \in env.names} :
          proc' = [proc EXCEPT ![p] = [@ EXCEPT !.name = n, !.looked = @ + 1,
                      !.pc = IF n = Null THEN "nameLookup" ELSE "upsert"]]
    /\ lookups' = [lookups EXCEPT ![PairOf(proc[p])] = @ + 1]
    /\ UNCHANGED <<call, env, revision, pageTokens, messages, convState, clock, detached,
                   requests, sentAuto, sentAdmin, lastSet>>

\* getUserProfile without its catch: the failure ends saveMessage before
\* the update of the state
SaveNameLookup_Throw(p) ==
    /\ proc[p].pc = "nameLookup"
    /\ \E n \in {Null} \cup {Str(x) : x \in env.names} :
          proc' = [proc EXCEPT ![p] =
                      IF n = Null THEN [@ EXCEPT !.pc = "isPaused", !.looked = @ + 1]
                      ELSE [@ EXCEPT !.pc = "upsert", !.name = n,
                                     !.looked = @ + 1]]
    /\ lookups' = [lookups EXCEPT ![PairOf(proc[p])] = @ + 1]
    /\ UNCHANGED <<call, env, revision, pageTokens, messages, convState, clock, detached,
                   requests, sentAuto, sentAdmin, lastSet>>

\* getUserProfile: the name, or null when the call fails
SaveNameLookup(p) ==
    /\ proc[p].pc = "nameLookup"
    /\ \E n \in {Null} \cup {Str(x) : x \in env.names} :
          proc' = [proc EXCEPT ![p] = [@ EXCEPT !.pc = "upsert", !.name = n,
                                                !.looked = @ + 1]]
    /\ lookups' = [lookups EXCEPT ![PairOf(proc[p])] = @ + 1]
    /\ UNCHANGED <<call, env, revision, pageTokens, messages, convState, clock, detached,
                   requests, sentAuto, sentAdmin, lastSet>>

\* where the caller of saveMessage goes when it returns
AfterSave(rec) ==
    IF rec.kind = "webhook"
    THEN IF rec.role = "user" THEN [rec EXCEPT !.pc = "isPaused"]
         ELSE PopEvent(rec)
    ELSE Responded(200)

\* updateOne(pair, $set updateData, $setOnInsert aiPaused false, upsert)
SaveUpsert(p) ==
    /\ proc[p].pc = "upsert"
    /\ convState' = [convState EXCEPT ![PairOf(proc[p])] =
                        Upserted(@, proc[p].li, proc[p].name)]
    /\ proc' = [proc EXCEPT ![p] = AfterSave(@)]
    /\ UNCHANGED <<call, env, revision, pageTokens, messages, clock, detached, requests,
                   lookups, sentAuto, sentAdmin, lastSet>>

----------------------------------------------------------------------------
(* Reply decision and dispatch                                             *)

\* reply steps that do not look at the credential
ReplySteps_Unchecked(rec) ==
    IF revision = "keyword"
    THEN IF rec.pageData = Null THEN PopEvent(rec)
         ELSE LET rulesText == OrElse(rec.pageData[1].System_Prompt, Str(<<>>))[1]
                  replyText == getKeywordReply(rec.text, rulesText)
              IN  IF Truthy(replyText)
                  THEN [rec EXCEPT !.pc = "send", !.reply = replyText]
                  ELSE PopEvent(rec)
    ELSE [rec EXCEPT !.pc = "generate", !.model = 1, !.attempts = 0,
                     !.calls = 0]

\* the reply steps of the handler, up to its next await
ReplySteps(rec) ==
    IF revision = "keyword"
    THEN IF Truthy(rec.token)
         THEN LET rulesText == OrElse(rec.pageData[1].System_Prompt, Str(<<>>))[1]
                  replyText == getKeywordReply(rec.text, rulesText)
              IN  IF rulesText = <<>> THEN PopEvent(rec)
                  ELSE IF Truthy(replyText)
                  THEN [rec EXCEPT !.pc = "send", !.reply = replyText]
                  ELSE PopEvent(rec)
         ELSE PopEvent(rec)
    ELSE IF rec.pageData = Null \/ ~Truthy(rec.pageData[1].Access_Token)
         THEN PopEvent(rec)
         ELSE [rec EXCEPT !.pc = "generate", !.model = 1, !.attempts = 0,
                          !.calls = 0]

\* the handler going on to the reply steps whatever isAiPaused returned
AfterPauseCheck_Ungated(rec, paused) == ReplySteps(rec)

\* the steps of the handler from the result of isAiPaused to its next await
AfterPauseCheck(rec, paused) ==
    IF paused THEN PopEvent(rec) ELSE ReplySteps(rec)

\* isAiPaused(pageId, senderId): findOne on conversation_states
IsAiPaused(p) ==
    /\ proc[p].pc = "isPaused"
    /\ proc' = [proc EXCEPT ![p] =
                   AfterPauseCheck(@, PausedIn(convState[PairOf(@)]))]
    /\ UNCHANGED <<call, env, revision, pageTokens, messages, convState, clock, detached,
                   requests, lookups, sentAuto, sentAdmin, lastSet>>

\* the models generateAIResponse goes through, in order
DEFAULT_MODELS ==
    <<"gemini-2.0-flash-lite", "gemini-2.5-flash", "gemini-2.0-flash",
      "gemini-flash-latest">>

maxAttempts == 2

\* how one generateContent call of generateAIResponse ends: a text, an
\* empty text, an error whose message has "429" or "Quota", another error,
\* or nothing within 15 s, which the race turns into Error("Timeout")
Outcomes == {"text", "empty", "rateLimit", "error", "timeout"}

\* a generateAIResponse that asks the next model although it has a text
GenerateAI_KeepGoing(rec, outcome) ==
    LET attempts == rec.attempts + 1
        called == [rec EXCEPT !.attempts = attempts, !.calls = @ + 1,
                              !.outcome = outcome, !.slept = FALSE]
        nextModel ==
            IF rec.model < Len(DEFAULT_MODELS)
            THEN [called EXCEPT !.model = @ + 1, !.attempts = 0]
            ELSE [PopEvent(called) EXCEPT !.model = called.model,
                                          !.attempts = called.attempts,
                                          !.calls = called.calls]
    IN  CASE outcome = "text" ->
                IF rec.model < Len(DEFAULT_MODELS) THEN nextModel
                ELSE [called EXCEPT !.pc = "send", !.reply = Str(AiText)]
          [] outcome \in {"empty", "rateLimit"} ->
                IF attempts < maxAttempts THEN called ELSE nextModel
          [] OTHER -> nextModel

\* a while loop that allows a third attempt
GenerateAI_ThreeTries(rec, outcome) ==
    LET attempts == rec.attempts + 1
        called == [rec EXCEPT !.attempts = attempts, !.calls = @ + 1]
        nextModel ==
            IF rec.model < Len(DEFAULT_MODELS)
            THEN [called EXCEPT !.model = @ + 1, !.attempts = 0]
            ELSE [PopEvent(called) EXCEPT !.model = called.model,
                                          !.attempts = called.attempts,
                                          !.calls = called.calls]
    IN  CASE outcome = "text" ->
                [called EXCEPT !.pc = "send", !.reply = Str(AiText)]
          [] outcome \in {"empty", "rateLimit"} ->
                IF attempts < maxAttempts + 1 THEN called ELSE nextModel
          [] OTHER -> nextModel

\* a generateAIResponse that answers with an apology when every model failed
GenerateAI_Apology(rec, outcome) ==
    LET attempts == rec.attempts + 1
        called == [rec EXCEPT !.attempts = attempts, !.calls = @ + 1]
        nextModel ==
            IF rec.model < Len(DEFAULT_MODELS)
            THEN [called EXCEPT !.model = @ + 1, !.attempts = 0]
            ELSE [called EXCEPT !.pc = "send", !.reply = Str(<<"s", "o", "r", "r", "y">>)]
    IN  CASE outcome = "text" ->
                [called EXCEPT !.pc = "send", !.reply = Str(AiText)]
          [] outcome \in {"empty", "rateLimit"} ->
                IF attempts < maxAttempts THEN called ELSE nextModel
          [] OTHER -> nextModel

\* one turn of the while loop of generateAIResponse, from attempts++ to the
\* next generateContent call or to the return, and what the handler does
\* with { text: null }: it logs and goes to the next event (model, attempts
\* and calls then keep where generateAIResponse gave up); outcome keeps
\* how the latest call ended and slept whether sleep(10000) was awaited
\* since
GenerateAI(rec, outcome) ==
    LET attempts == rec.attempts + 1
        called == [rec EXCEPT !.attempts = attempts, !.calls = @ + 1,
                              !.outcome = outcome, !.slept = FALSE]
        nextModel ==
            IF rec.model < Len(DEFAULT_MODELS)
            THEN [called EXCEPT !.model = @ + 1, !.attempts = 0]
            ELSE [PopEvent(called) EXCEPT !.model = called.model,
                                          !.attempts = called.attempts,
                                          !.calls = called.calls]
    IN  CASE outcome = "text" ->
                [called EXCEPT !.pc = "send", !.reply = Str(AiText)]
          [] outcome = "empty" ->
                IF attempts < maxAttempts THEN called ELSE nextModel
          [] outcome = "rateLimit" ->
                IF attempts < maxAttempts THEN [called EXCEPT !.slept = TRUE]
                ELSE nextModel
          [] OTHER -> nextModel

\* model.generateContent(chatPrompt): a text, or an exception that the
\* handler's catch logs; in src/unnamed/part_002 one call made by
\* generateAIResponse
Generate(p) ==
    /\ proc[p].pc = "generate"
    /\ IF revision = "fallback"
       THEN \E outcome \in Outcomes :
               proc' = [proc EXCEPT ![p] = GenerateAI(@, outcome)]
       ELSE \E ok \in BOOLEAN :
               proc' = [proc EXCEPT ![p] =
                           IF ok THEN [@ EXCEPT !.pc = "send", !.reply = Str(AiText)]
                           ELSE PopEvent(@)]
    /\ UNCHANGED <<call, env, revision, pageTokens, messages, convState, clock, detached,
                   requests, lookups, sentAuto, sentAdmin, lastSet>>

\* a saveMessage call that nobody awaits
DetachedSave(rec, sender, text) ==
    [pageId |-> rec.pageId, userId |-> rec.userId, role |-> sender,
     text |-> text, pc |-> "insert", li |-> 0]

\* a send whose failure leaves the handler as an exception
Send_Propagate(p) ==
    /\ proc[p].pc = "send"
    /\ \E ok \in BOOLEAN :
          IF ~ok
          THEN /\ proc' = [proc EXCEPT ![p] = IdleProc]
               /\ UNCHANGED <<sentAuto, detached>>
          ELSE /\ sentAuto' = [sentAuto EXCEPT ![PairOf(proc[p])] = @ + 1]
               /\ IF revision \in {"keyword", "fallback"}
                  THEN /\ detached' = Append(detached,
                              DetachedSave(proc[p],
                                  IF revision = "keyword" THEN "bot" ELSE "ai",
                                  proc[p].reply[1]))
                       /\ proc' = [proc EXCEPT ![p] = PopEvent(@)]
                  ELSE /\ proc' = [proc EXCEPT ![p] =
                                      CallSave(@, "ai", @.reply[1], Null)]
                       /\ UNCHANGED detached
    /\ UNCHANGED <<call, env, revision, pageTokens, messages, convState, clock, requests,
                   lookups, sentAdmin, lastSet>>

\* axios.post to the send API with the automated reply; on success the
\* generative handler awaits saveMessage(.., 'ai', ..), the keyword handler
\* starts saveMessage(.., 'bot', ..) in a then-callback and goes on, and
\* so does the handler of src/unnamed/part_002 with saveMessage(.., 'ai', ..)
Send(p) ==
    /\ proc[p].pc = "send"
    /\ \E ok \in BOOLEAN :
          IF ~ok
          THEN /\ proc' = [proc EXCEPT ![p] = PopEvent(@)]
               /\ UNCHANGED <<sentAuto, detached>>
          ELSE /\ sentAuto' = [sentAuto EXCEPT ![PairOf(proc[p])] = @ + 1]
               /\ IF revision \in {"keyword", "fallback"}
                  THEN /\ detached' = Append(detached,
                              DetachedSave(proc[p],
                                  IF revision = "keyword" THEN "bot" ELSE "ai",
                                  proc[p].reply[1]))
                       /\ proc' = [proc EXCEPT ![p] = PopEvent(@)]
                  ELSE /\ proc' = [proc EXCEPT ![p] =
                                      CallSave(@, "ai", @.reply[1], Null)]
                       /\ UNCHANGED detached
    /\ UNCHANGED <<call, env, revision, pageTokens, messages, convState, clock, requests,
                   lookups, sentAdmin, lastSet>>

RemoveAt(q, i) == SubSeq(q, 1, i - 1) \o SubSeq(q, i + 1, Len(q))

\* saveMessage of a detached call: insertOne
DetachedInsert(i) ==
    /\ i \in 1..Len(detached)
    /\ detached[i].pc = "insert"
    /\ messages' = Append(messages, MessageRecord(detached[i], Now))
    /\ clock' = Now
    /\ detached' = [detached EXCEPT ![i] = [@ EXCEPT !.pc = "resume"]]
    /\ UNCHANGED <<call, env, revision, pageTokens, convState, proc, requests, lookups,
                   sentAuto, sentAdmin, lastSet>>

\* saveMessage of a detached call: updateData = { lastInteraction: new Date() }
DetachedResume(i) ==
    /\ i \in 1..Len(detached)
    /\ detached[i].pc = "resume"
    /\ clock' = Now
    /\ detached' = [detached EXCEPT ![i] = [@ EXCEPT !.pc = "upsert", !.li = Now]]
    /\ UNCHANGED <<call, env, revision, pageTokens, messages, convState, proc, requests,
                   lookups, sentAuto, sentAdmin, lastSet>>

\* saveMessage of a detached call: updateOne with upsert, and the call ends
DetachedUpsert(i) ==
    /\ i \in 1..Len(detached)
    /\ detached[i].pc = "upsert"
    /\ convState' = [convState EXCEPT ![PairOf(detached[i])] =
                        Upserted(@, detached[i].li, Null)]
    /\ detached' = RemoveAt(detached, i)
    /\ UNCHANGED <<call, env, revision, pageTokens, messages, clock, proc, requests,
                   lookups, sentAuto, sentAdmin, lastSet>>

----------------------------------------------------------------------------
(* Admin requests                                                          *)

\* the filter of a toggle-ai or ai-status request on conversation_states:
\* { pageId: pageId.toString(), userId: userId.toString() }, and in the
\* earlier revision { pageId, userId }
StateKey(pageId, userId) ==
    IF revision = "earlier" THEN <<pageId, userId>>
    ELSE <<ToString(pageId), ToString(userId)>>

\* POST /api/inbox/toggle-ai with { pageId, userId, paused }
ToggleAi(pageId, userId, paused) ==
    /\ Overlap \/ Quiet
    /\ Truthy(Str(pageId.v)) /\ Truthy(Str(userId.v))
    /\ requests < MaxRequests
    /\ requests' = requests + 1
    /\ convState' = [convState EXCEPT ![StateKey(pageId, userId)] =
                        Toggled(@, paused)]
    /\ lastSet' = [lastSet EXCEPT ![<<ToString(pageId), ToString(userId)>>] =
                        Str(paused)]
    /\ UNCHANGED <<call, env, revision, pageTokens, messages, clock, proc, detached,
                   lookups, sentAuto, sentAdmin>>

\* GET /api/inbox/ai-status with ?pageId=..&userId=..: isAiPaused reads the
\* pair's document and the request answers { paused }
AiStatus(p, pageId, userId) ==
    /\ FreeSlot(p)
    /\ requests < MaxRequests
    /\ requests' = requests + 1
    /\ proc' = [proc EXCEPT ![p] =
                   [Responded(200) EXCEPT !.pageId = pageId, !.userId = userId,
                        !.paused = Str(PausedIn(convState[StateKey(pageId, userId)]))]]
    /\ UNCHANGED <<call, env, revision, pageTokens, messages, convState, clock,
                   detached, lookups, sentAuto, sentAdmin, lastSet>>

\* POST /api/inbox/reply with { pageId, userId, text }: getPageData is called
ManualReply(p, pageId, userId, text) ==
    /\ FreeSlot(p)
    /\ requests < MaxRequests
    /\ proc' = [proc EXCEPT ![p] = [IdleProc EXCEPT !.kind = "reply",
                    !.pc = "getPageStr", !.pageId = pageId,
                    !.userId = userId, !.text = text]]
    /\ requests' = requests + 1
    /\ UNCHANGED <<call, env, revision, pageTokens, messages, convState, clock, detached,
                   lookups, sentAuto, sentAdmin, lastSet>>

\* a manual reply that is recorded whether or not the send succeeded
AdminSend_SaveAnyway(p) ==
    /\ proc[p].pc = "adminSend"
    /\ \E ok \in BOOLEAN :
          /\ sentAdmin' = IF ok THEN [sentAdmin EXCEPT ![PairOf(proc[p])] = @ + 1]
                          ELSE sentAdmin
          /\ proc' = [proc EXCEPT ![p] = CallSave(@, "admin", @.text, Null)]
    /\ UNCHANGED <<call, env, revision, pageTokens, messages, convState, clock, detached,
                   requests, lookups, sentAuto, lastSet>>

\* axios.post to the send API with the manual reply; on success
\* saveMessage(.., 'admin', ..) is awaited, on failure the request ends
\* with status 500
AdminSend(p) ==
    /\ proc[p].pc = "adminSend"
    /\ \E ok \in BOOLEAN :
          IF ok
          THEN /\ sentAdmin' = [sentAdmin EXCEPT ![PairOf(proc[p])] = @ + 1]
               /\ proc' = [proc EXCEPT ![p] = CallSave(@, "admin", @.text, Null)]
          ELSE /\ proc' = [proc EXCEPT ![p] = Responded(500)]
               /\ UNCHANGED sentAdmin
    /\ UNCHANGED <<call, env, revision, pageTokens, messages, convState, clock, detached,
                   requests, lookups, sentAuto, lastSet>>

----------------------------------------------------------------------------
(* POST /api/pages                                                         *)

\* the credential and the name the dashboard sends
NewToken == <<"n", "e", "w">>

NewName == <<"S", "h", "o", "p">>

\* the identifiers a request body carries for the page: a JSON string or a
\* JSON number
BodyIds == {PageId, ParseInt(PageId)}

BodyTokens == {Null, Str(NewToken)}

BodyPersonas == {NotGiven, Given(Null), Given(Str(RulesNoDefault))}

\* a $set that writes every field of the request, given or not
SetFields_Whole(rec, d) ==
    [d EXCEPT !.Page_Name = rec.name, !.Access_Token = rec.token,
              !.System_Prompt = rec.persona.v]

\* updateFields, as the fields of a document the $set overwrites
SetFields(rec, d) ==
    [d EXCEPT !.Page_Name = rec.name,
              !.Access_Token = IF Truthy(rec.token) THEN rec.token ELSE @,
              !.System_Prompt = IF rec.persona.given THEN rec.persona.v ELSE @]

\* updateOne(filterQuery, { $set: updateFields }, { upsert: true }): the
\* possible contents of page_tokens after it
UpdatedTokens(rec) ==
    LET matching == {d \in pageTokens : d.Page_ID = rec.filter}
    IN  IF matching = {}
        THEN {pageTokens \cup {SetFields(rec, Doc(rec.filter, Null, Null, Null))}}
        ELSE {(pageTokens \ {d}) \cup {SetFields(rec, d)} : d \in matching}

\* POST /api/pages with { name, id, token, persona }: updateFields is built
\* and safeIdStr = id.toString() becomes the filter; the generative revision
\* then looks for the document, the keyword revision updates at once
UpsertPage(p, id, token, persona) ==
    /\ FreeSlot(p)
    /\ requests < MaxRequests
    /\ requests' = requests + 1
    /\ proc' = [proc EXCEPT ![p] = [IdleProc EXCEPT !.kind = "pages",
                    !.pc = IF revision = "generative" THEN "pagesFindStr"
                           ELSE "pagesUpdate",
                    !.pageId = ToString(id), !.filter = ToString(id),
                    !.name = Str(NewName), !.token = token,
                    !.persona = persona]]
    /\ UNCHANGED <<call, env, revision, pageTokens, messages, convState, clock,
                   detached, lookups, sentAuto, sentAdmin, lastSet>>

\* existingDoc = findOne({ Page_ID: safeIdStr })
PagesFindStr(p) ==
    /\ proc[p].pc = "pagesFindStr"
    /\ \E existingDoc \in FindPage(proc[p].pageId) :
          proc' = [proc EXCEPT ![p].pc =
                      IF existingDoc = Null /\ AllDigits(proc[p].pageId)
                      THEN "pagesFindNum" ELSE "pagesUpdate"]
    /\ UNCHANGED <<call, env, revision, pageTokens, messages, convState, clock,
                   detached, requests, lookups, sentAuto, sentAdmin, lastSet>>

\* existingDocNum = findOne({ Page_ID: idNum }); when it is found the
\* filter becomes { Page_ID: idNum }
PagesFindNum(p) ==
    /\ proc[p].pc = "pagesFindNum"
    /\ \E existingDocNum \in FindPage(ParseInt(proc[p].pageId)) :
          proc' = [proc EXCEPT ![p] =
                      [@ EXCEPT !.pc = "pagesUpdate",
                                !.filter = IF existingDocNum # Null
                                           THEN ParseInt(proc[p].pageId)
                                           ELSE @]]
    /\ UNCHANGED <<call, env, revision, pageTokens, messages, convState, clock,
                   detached, requests, lookups, sentAuto, sentAdmin, lastSet>>

\* updateOne(filterQuery, { $set: updateFields }, { upsert: true }) and the
\* response { success: true }
PagesUpdate(p) ==
    /\ proc[p].pc = "pagesUpdate"
    /\ pageTokens' \in UpdatedTokens(proc[p])
    /\ proc' = [proc EXCEPT ![p] = Responded(200)]
    /\ UNCHANGED <<call, env, revision, messages, convState, clock, detached,
                   requests, lookups, sentAuto, sentAdmin, lastSet>>

----------------------------------------------------------------------------
(* Specification                                                           *)

Next ==
    \/ \E p \in Procs : Deliver(p)
    \/ \E p \in Procs : HandlerDone(p)
    \/ \E p \in Procs, e \in Events(env.users, env.texts) : SkipEvent(p, e)
    \/ \E p \in Procs, e \in Events(env.users, env.texts) : StartEvent(p, e)
    \/ \E p \in Procs : GetPageStr(p)
    \/ \E p \in Procs : GetPageNum(p)
    \/ \E p \in Procs : SaveInsert(p)
    \/ \E p \in Procs : SaveResume(p)
    \/ \E p \in Procs : SaveFindState(p)
    \/ \E p \in Procs : SaveNameLookup(p)
    \/ \E p \in Procs : SaveUpsert(p)
    \/ \E p \in Procs : IsAiPaused(p)
    \/ \E p \in Procs : Generate(p)
    \/ \E p \in Procs : Send(p)
    \/ \E i \in 1..Len(detached) : DetachedInsert(i)
    \/ \E i \in 1..Len(detached) : DetachedResume(i)
    \/ \E i \in 1..Len(detached) : DetachedUpsert(i)
    \/ \E pg \in PageIds, u \in env.users, b \in BOOLEAN : ToggleAi(pg, u, b)
    \/ \E p \in Procs, pg \in PageIds, u \in env.users :
          ManualReply(p, pg, u, AdminText)
    \/ \E p \in Procs : AdminSend(p)
    \/ \E p \in Procs, pg \in PageIds, u \in env.users : AiStatus(p, pg, u)

\* the service with nothing overlapping, over every input
Spec == Init /\ [][Next]_vars

\* the service with requests, toggles and detached calls overlapping
SpecConcurrent == InitConcurrent /\ [][Next]_vars

\* the dashboard edits the registry while the service runs: nothing
\* overlaps, for one end-user
PagesEnv ==
    [inFlight |-> 1, users |-> {StringId(<<"7">>)}, texts |-> {TextHi},
     names |-> {<<"A", "n", "n">>}]

InitPages == Start(PagesEnv, InitialRegistries) /\ call = NoCall

NextPages ==
    \/ Next
    \/ \E p \in Procs, id \in BodyIds, token \in BodyTokens,
          persona \in BodyPersonas : UpsertPage(p, id, token, persona)
    \/ \E p \in Procs : PagesFindStr(p)
    \/ \E p \in Procs : PagesFindNum(p)
    \/ \E p \in Procs : PagesUpdate(p)

SpecPages == InitPages /\ [][NextPages]_vars

\* the dashboard's pause switch on its own, in the three revisions: the
\* request body carries the identifiers as JSON strings or JSON numbers,
\* the query string carries them as strings
InitToggle ==
    /\ StartIn(SequentialEnv, {{}}, {"generative", "keyword", "earlier"})
    /\ call = NoCall

NextToggle ==
    \/ \E pg \in TypedIds(PageIds), u \in TypedIds(env.users), b \in BOOLEAN :
          ToggleAi(pg, u, b)
    \/ \E p \in Procs, pg \in PageIds, u \in env.users : AiStatus(p, pg, u)

SpecToggle == InitToggle /\ [][NextToggle]_vars

-----------------------------------------------------------------------------
(* Failing database                                                        *)

\* what is left of a handler whose promise rejected with nobody to catch it
Uncaught == [IdleProc EXCEPT !.pc = "uncaught"]

\* getPageData has no try/catch: a rejected getDb() or findOne() is thrown
\* to the caller. POST /api/inbox/reply calls it inside its try and answers
\* 500; the webhook calls it before its try
GetPageFails(p) ==
    /\ proc[p].pc \in {"getPageStr", "getPageNum"}
    /\ proc' = [proc EXCEPT ![p] =
                   IF @.kind = "webhook" THEN Uncaught ELSE Responded(500)]
    /\ UNCHANGED <<call, env, revision, pageTokens, messages, convState, clock, detached,
                   requests, lookups, sentAuto, sentAdmin, lastSet>>

\* saveMessage: a rejected insertOne, findOne or updateOne is caught and
\* logged ("Save Msg Error"), and saveMessage returns
SaveFails(p) ==
    /\ proc[p].pc \in {"insert", "findState", "upsert"}
    /\ proc' = [proc EXCEPT ![p] = AfterSave(@)]
    /\ UNCHANGED <<call, env, revision, pageTokens, messages, convState, clock, detached,
                   requests, lookups, sentAuto, sentAdmin, lastSet>>

\* an isAiPaused whose catch answers that the conversation is paused
IsAiPausedFails_Paused(p) ==
    /\ proc[p].pc = "isPaused"
    /\ proc' = [proc EXCEPT ![p] = AfterPauseCheck(@, TRUE)]
    /\ UNCHANGED <<call, env, revision, pageTokens, messages, convState, clock, detached,
                   requests, lookups, sentAuto, sentAdmin, lastSet>>

\* isAiPaused: catch (e) { return false; }
IsAiPausedFails(p) ==
    /\ proc[p].pc = "isPaused"
    /\ proc' = [proc EXCEPT ![p] = AfterPauseCheck(@, FALSE)]
    /\ UNCHANGED <<call, env, revision, pageTokens, messages, convState, clock, detached,
                   requests, lookups, sentAuto, sentAdmin, lastSet>>

\* a detached saveMessage whose database call is rejected ends the same way
DetachedFails(i) ==
    /\ i \in 1..Len(detached)
    /\ detached[i].pc \in {"insert", "upsert"}
    /\ detached' = RemoveAt(detached, i)
    /\ UNCHANGED <<call, env, revision, pageTokens, messages, convState, clock, proc,
                   requests, lookups, sentAuto, sentAdmin, lastSet>>

NextFaults ==
    \/ Next
    \/ \E p \in Procs : GetPageFails(p)
    \/ \E p \in Procs : SaveFails(p)
    \/ \E p \in Procs : IsAiPausedFails(p)
    \/ \E i \in 1..MaxRequests : DetachedFails(i)

\* every database call may be rejected, for one end-user
SpecFaults == InitPages /\ [][NextFaults]_vars

\* the revision that generates through the list of models, for one end-user
InitGenerate ==
    /\ StartIn(PagesEnv, InitialRegistries, {"fallback"})
    /\ call = NoCall

SpecGenerate == InitGenerate /\ [][Next]_vars

\* every pending generateContent call settles, by its response or by the
\* 15 s timer it races with, and the 10 s sleep before a retry ends
SpecGenerateLive ==
    SpecGenerate /\ \A p \in Procs : WF_vars(Generate(p))

-----------------------------------------------------------------------------
(* The lists of the inbox                                                  *)

RECURSIVE SortedLists_Unsorted(_, _, _)
\* a cursor that returns the documents in any order
SortedLists_Unsorted(S, key, descending) ==
    IF S = {} THEN {<<>>}
    ELSE UNION {{<<d>> \o rest :
                    rest \in SortedLists_Unsorted(S \ {d}, key, descending)} :
                d \in S}

RECURSIVE SortedLists(_, _, _)
\* .sort({ field: 1 }) or .sort({ field: -1 }) of a cursor over the
\* documents S, whose sort field is key[d]: the orders in which the cursor
\* may return them, documents of equal key in any order; the documents are
\* split at a middle key, those on the near side of it coming first
SortedLists(S, key, descending) ==
    LET keys == {key[d] : d \in S}
    IN  IF S = {} THEN {<<>>}
        ELSE IF Cardinality(keys) = 1
        THEN UNION {{<<d>> \o rest :
                        rest \in SortedLists(S \ {d}, key, descending)} :
                    d \in S}
        ELSE LET mid == CHOOSE k \in keys :
                           Cardinality({j \in keys : j < k})
                              = Cardinality(keys) \div 2
                 low == {d \in S : key[d] < mid}
                 front == IF descending THEN S \ low ELSE low
             IN  {a \o b : a \in SortedLists(front, key, descending),
                           b \in SortedLists(S \ front, key, descending)}

\* .limit(n)
Limit(seq, n) == SubSeq(seq, 1, IF Len(seq) < n THEN Len(seq) ELSE n)

\* GET /api/inbox/conversations: find({}).sort({ lastInteraction: -1 })
\* .limit(20).toArray(); in the order of a sort a missing field comes
\* before every date
InboxConversations(p) ==
    /\ FreeSlot(p)
    /\ LET docs == {k \in StateKeys : convState[k].exists}
           key == [k \in docs |->
                     IF convState[k].lastInteraction = Null THEN 0
                     ELSE convState[k].lastInteraction[1]]
       IN  \E seq \in SortedLists(docs, key, TRUE) :
              proc' = [proc EXCEPT ![p] = [Responded(200) EXCEPT !.list =
                          Limit([i \in 1..Len(seq) |->
                                    [pageId |-> seq[i][1], userId |-> seq[i][2],
                                     lastInteraction |->
                                        convState[seq[i]].lastInteraction]],
                                20)]]
    /\ UNCHANGED <<call, env, revision, pageTokens, messages, convState, clock,
                   detached, requests, lookups, sentAuto, sentAdmin, lastSet>>

\* GET /api/inbox/messages?pageId=..&userId=..: find({ pageId:
\* pageId.toString(), userId: userId.toString() }).sort({ timestamp: 1 })
\* .limit(100).toArray()
InboxMessages(p, pageId, userId) ==
    /\ FreeSlot(p)
    /\ LET docs == {i \in 1..Len(messages) :
                       /\ messages[i].pageId = ToString(pageId)
                       /\ messages[i].userId = ToString(userId)}
           key == [i \in docs |-> messages[i].timestamp]
       IN  \E seq \in SortedLists(docs, key, FALSE) :
              proc' = [proc EXCEPT ![p] =
                          [Responded(200) EXCEPT !.pageId = pageId,
                               !.userId = userId,
                               !.list = Limit([i \in 1..Len(seq) |->
                                                  messages[seq[i]]], 100)]]
    /\ UNCHANGED <<call, env, revision, pageTokens, messages, convState, clock,
                   detached, requests, lookups, sentAuto, sentAdmin, lastSet>>

NextInbox ==
    \/ Next
    \/ \E p \in Procs : InboxConversations(p)
    \/ \E p \in Procs, pg \in PageIds, u \in env.users : InboxMessages(p, pg, u)

\* the dashboard reads the lists while the service runs
SpecInbox == Init /\ [][NextInbox]_vars

\* the log after n text events of one end-user on a page that is not
\* registered: saveMessage(pageId, senderId, 'user', userMsg, undefined) has
\* run n times, each call reading the clock for its record and once more
\* for updateData
HistoryLog(n) ==
    [i \in 1..n |->
        MessageRecord([pageId |-> PageId, userId |-> StringId(<<"7">>),
                       role |-> "user", text |-> TextHi], 2 * i - 1)]

\* a conversation of any length up to one record more than the history
\* route's limit, when the events that built it are over
InitHistory ==
    /\ env = SequentialEnv
    /\ revision = "generative"
    /\ pageTokens = {}
    /\ \E n \in 0..101 :
          /\ messages = HistoryLog(n)
          /\ clock = 2 * n
          /\ convState =
                [k \in StateKeys |->
                    IF n > 0 /\ k = <<PageId, StringId(<<"7">>)>>
                    THEN Upserted(NoState, 2 * n, Null) ELSE NoState]
    /\ proc = [p \in Procs |-> IdleProc]
    /\ detached = <<>>
    /\ requests = MaxRequests
    /\ lookups = [pr \in Pairs |-> 0]
    /\ sentAuto = [pr \in Pairs |-> 0]
    /\ sentAdmin = [pr \in Pairs |-> 0]
    /\ lastSet = [pr \in Pairs |-> Null]
    /\ call = NoCall

NextHistory ==
    \E p \in Procs, pg \in PageIds, u \in env.users : InboxMessages(p, pg, u)

\* the dashboard opens conversations of every length
SpecHistory == InitHistory /\ [][NextHistory]_vars

----------------------------------------------------------------------------
(* getKeywordReply on its own                                              *)

\* the rule lines of the specification's example
LinePrice ==
    <<"p", "r", "i", "c", "e", " ", "-", ">", " ", "5", "0", "0", "t",
      "k">>

LineHello ==
    <<"h", "e", "l", "l", "o", " ", "-", ">", " ", "H", "i", "!">>

LineDefault ==
    <<"d", "e", "f", "a", "u", "l", "t", " ", "-", ">", " ", "I", " ",
      "d", "o", "n", "'", "t", " ", "u", "n", "d", "e", "r", "s", "t",
      "a", "n", "d", ".">>

\* a response that holds the delimiter
LinePromo ==
    <<"p", "r", "o", "m", "o", " ", "-", ">", " ", "b", "u", "y", " ",
      "1", " ", "-", ">", " ", "g", "e", "t", " ", "1", " ", "f", "r",
      "e", "e">>

\* a line without delimiter
LineNoArrow ==
    <<"p", "r", "i", "c", "e", " ", "5", "0", "0", "t", "k">>

\* a rule whose response is empty
LineNoResponse ==
    <<"p", "r", "i", "c", "e", " ", "-", ">">>

\* a rule whose keyword is empty
LineNoKeyword ==
    <<" ", "-", ">", " ", "a", "n", "y">>

\* the other sentinel, in upper case
LineElse ==
    <<" ", "E", "L", "S", "E", " ", "-", ">", " ", "E", "l", "s", "e",
      "!">>

\* a keyword in upper case
LineUpper ==
    <<"H", "E", "L", "L", "O", " ", "-", ">", " ", "H", "e", "y">>

\* a fallback whose response holds the delimiter
LineElseTwo ==
    <<"e", "l", "s", "e", " ", "-", ">", " ", "a", " ", "-", ">", " ",
      "b">>

\* the messages of the specification's example
MsgPrice ==
    <<"w", "h", "a", "t", " ", "i", "s", " ", "t", "h", "e", " ", "p",
      "r", "i", "c", "e", "?">>

MsgXyz ==
    <<"x", "y", "z">>

\* a message in mixed case, with spaces around it
MsgHello ==
    <<" ", "H", "e", "l", "l", "o", " ", "P", "R", "O", "M", "O", " ">>

\* the responses of the example
RespPrice ==
    <<"5", "0", "0", "t", "k">>

RespDefault ==
    <<"I", " ", "d", "o", "n", "'", "t", " ", "u", "n", "d", "e", "r",
      "s", "t", "a", "n", "d", ".">>

LinePool ==
    {LinePrice, LineHello, LineDefault, LinePromo, LineNoArrow,
     LineNoResponse, LineNoKeyword, LineElse, LineUpper, LineElseTwo}

Messages == {MsgPrice, MsgXyz, MsgHello}

\* the rule tables: up to MaxLines lines of the pool, in any order
RuleTables == UNION {[1..n -> LinePool] : n \in 0..MaxLines}

\* the constants of the /test-bot route
TestRules ==
    <<"h", "e", "l", "l", "o", " ", "-", ">", " ", "H", "i", " ", "t",
      "h", "e", "r", "e", "!", "\n", "p", "r", "i", "c", "e", " ", "-",
      ">", " ", "T", "h", "e", " ", "p", "r", "i", "c", "e", " ", "i",
      "s", " ", "5", "0", "0", "t", "k", ".", "\n", "d", "e", "f", "a",
      "u", "l", "t", " ", "-", ">", " ", "I", " ", "d", "o", "n", "'",
      "t", " ", "u", "n", "d", "e", "r", "s", "t", "a", "n", "d", ".">>

TestMsg1 ==
    <<"h", "e", "l", "l", "o", " ", "b", "o", "t">>

TestMsg2 == MsgPrice

Called(userMsg, rulesText) ==
    [pc |-> "called", userMsg |-> userMsg, rulesText |-> rulesText,
     result |-> Null]

mainVars == <<env, revision, pageTokens, messages, convState, clock, proc,
              detached, requests, lookups, sentAuto, sentAdmin, lastSet>>

\* a page's rule text and a message are handed to getKeywordReply
InitKeyword ==
    /\ Start(SequentialEnv, {{}})
    /\ revision = "keyword"
    /\ call \in {Called(m, Join(t, NewLine)) : m \in Messages, t \in RuleTables}

\* getKeywordReply(userMsg, rulesText) returns
KeywordReply ==
    /\ call.pc = "called"
    /\ call' = [call EXCEPT !.pc = "returned",
                    !.result = getKeywordReply(call.userMsg, call.rulesText)]
    /\ UNCHANGED mainVars

\* GET /test-bot: getKeywordReply is called on the route's own rules
TestBot ==
    /\ call.pc = "returned"
    /\ \E m \in {TestMsg1, TestMsg2} : call' = Called(m, TestRules)
    /\ UNCHANGED mainVars

NextKeyword == KeywordReply \/ TestBot

SpecKeyword == InitKeyword /\ [][NextKeyword]_vars

----------------------------------------------------------------------------
(* getPageData on its own                                                  *)

MaxDocs == 2

\* the identifier of the specification's example
ExampleId == <<"1", "0", "0", "2", "0", "0", "3", "0", "0">>

\* the identifiers documents are stored under: strings of digits, with and
\* without leading zero, a string that is no number, and numbers
StoredIds ==
    {StringId(<<"1", "0", "0">>), StringId(<<"0", "1", "0", "0">>),
     StringId(<<"a", "b">>), NumberId(<<"1", "0", "0">>),
     NumberId(ExampleId)}

\* the identifiers getPageData is called with: entry.id of a delivery, or
\* pageId of a request body, which is any JSON string or number
QueriedIds ==
    StoredIds \cup {StringId(ExampleId), StringId(<<"1", "a">>),
                    StringId(<<>>), StringId(<<"7">>)}

PageDataRegistries ==
    {{Doc(id, Str(Token), Null, Null) : id \in ids} :
        ids \in {x \in SUBSET StoredIds : Cardinality(x) <= MaxDocs}}

PageDataCalled(pageId) ==
    [pc |-> "getPageStr", pageId |-> pageId, result |-> Null]

InitPageData ==
    /\ Start(SequentialEnv, PageDataRegistries)
    /\ call \in {PageDataCalled(id) : id \in QueriedIds}

\* getPageData up to its second await: findOne({ Page_ID: pageId.toString() })
\* and the test of the result and of the identifier's digits
PageDataStr ==
    /\ call.pc = "getPageStr"
    /\ \E r \in FindPage(ToString(call.pageId)) :
          call' = IF r # Null
                  THEN [call EXCEPT !.pc = "returned", !.result = r]
                  ELSE IF AllDigits(call.pageId)
                       THEN [call EXCEPT !.pc = "getPageNum"]
                       ELSE [call EXCEPT !.pc = "returned", !.result = Null]
    /\ UNCHANGED mainVars

\* getPageData from its second await: findOne({ Page_ID: parseInt(pageId) })
PageDataNum ==
    /\ call.pc = "getPageNum"
    /\ \E r \in FindPage(ParseInt(call.pageId)) :
          call' = [call EXCEPT !.pc = "returned", !.result = r]
    /\ UNCHANGED mainVars

\* the next call of getPageData
PageDataAgain ==
    /\ call.pc = "returned"
    /\ \E id \in QueriedIds : call' = PageDataCalled(id)
    /\ UNCHANGED mainVars

NextPageData == PageDataStr \/ PageDataNum \/ PageDataAgain

SpecPageData == InitPageData /\ [][NextPageData]_vars

----------------------------------------------------------------------------
(* Properties                                                              *)

\* slot p takes the step
Stepped(p) == proc'[p] # proc[p]

\* slot p is handling an event of a delivery
InEvent(p) == proc[p].kind = "webhook" /\ proc[p].pc # "loop"

\* the document of conversation_states of the conversation slot p works on
StateOf(p) == convState[PairOf(proc[p])]

\* the records of the messages collection of a pair, by position
RecordsOf(pr) ==
    {i \in 1..Len(messages) :
        messages[i].pageId = pr[1] /\ messages[i].userId = pr[2]}

UserRecordsOf(pr) == {i \in RecordsOf(pr) : messages[i].sender = "user"}

\* the record the saveMessage call of slot p inserted
Logged(p) ==
    \E i \in 1..Len(messages) : messages[i] = MessageRecord(proc[p], proc[p].ts)

\* a saveMessage call for the pair has inserted its record and not yet
\* updated the state
SavingFor(pr) ==
    \/ \E p \in Procs :
          /\ proc[p].pc \in {"resume", "findState", "nameLookup", "upsert"}
          /\ PairOf(proc[p]) = pr
    \/ \E i \in 1..Len(detached) :
          /\ detached[i].pc \in {"resume", "upsert"}
          /\ PairOf(detached[i]) = pr

\* C1: every inbound event with a text and a sender other than the page has
\* exactly one end-user record appended and the state of its conversation
\* upserted, before the reply decision and by the time the handler leaves
\* the event, whatever the handler finds (page unknown, no credential,
\* paused, generation or sending failing)
C1_AlwaysPersisted ==
    [][\A p \in Procs :
          /\ (InEvent(p) /\ proc'[p].pc = "loop")
                => /\ proc[p].logged = 1
                   /\ convState'[PairOf(proc[p])].exists
          /\ (proc[p].pc # "isPaused" /\ proc'[p].pc = "isPaused")
                => /\ proc'[p].logged = 1
                   /\ convState'[PairOf(proc'[p])].exists]_vars

\* C2: when the pause flag of the conversation is true as an inbound message
\* is handled, saveMessage still inserts the end-user record and sets
\* lastInteraction, and the handler leaves the event at the pause test: no
\* reply is generated or sent and no automated record is appended or
\* scheduled, in either revision
C2_PauseGate ==
    [][\A p \in Procs :
          /\ (proc[p].pc = "upsert" /\ proc[p].role = "user" /\ Stepped(p)
                /\ PausedIn(StateOf(p)))
                => /\ Logged(p)
                   /\ convState'[PairOf(proc[p])].lastInteraction = Str(proc[p].li)
                   /\ proc'[p].pc = "isPaused"
          /\ (proc[p].pc = "isPaused" /\ Stepped(p) /\ PausedIn(StateOf(p)))
                => /\ proc[p].logged = 1
                   /\ Logged(p)
                   /\ StateOf(p).lastInteraction # Null
                   /\ proc'[p].pc = "loop"
                   /\ UNCHANGED <<messages, convState, sentAuto, detached>>]_vars

C2_Witness ==
    \E p \in Procs :
        /\ proc[p].pc = "isPaused"
        /\ PausedIn(StateOf(p))
        /\ Truthy(proc[p].token)
        /\ proc[p].logged = 1
        /\ StateOf(p).lastInteraction = Str(proc[p].li)

\* C3: the stored pause flag of every conversation is the value of the
\* latest toggle-ai call for it, and false when there was none: no
\* saveMessage call, for an inbound message, an automated reply or a manual
\* reply, changes it
C3_PauseFlag ==
    \A pr \in Pairs : PausedIn(convState[pr]) = (lastSet[pr] = Str(TRUE))

C3_Witness ==
    \E pr \in Pairs :
        /\ lastSet[pr] = Str(TRUE)
        /\ convState[pr].aiPaused
        /\ convState[pr].lastInteraction # Null
        /\ UserRecordsOf(pr) # {}
        /\ ~SavingFor(pr)

\* C4: an event whose sender is the page of its entry is passed over: no
\* record, no change of any conversation state, no page lookup, no name
\* lookup and no reply, and the handler stays in its loop for the events
\* that follow
C4_SelfSent ==
    [][\A p \in Procs, e \in Events(env.users, env.texts) :
          (e.sender = e.page /\ (SkipEvent(p, e) \/ StartEvent(p, e)))
             => /\ UNCHANGED <<messages, convState, lookups, sentAuto, sentAdmin,
                              detached, requests>>
                /\ proc'[p].kind = "webhook"
                /\ proc'[p].pc = "loop"]_vars

C4_Witness ==
    \E p \in Procs :
        /\ proc[p].passedSelf
        /\ proc[p].pc = "isPaused"
        /\ requests = 1
        /\ Len(messages) = 1

C6_LastInteraction ==
    [][\A p \in Procs :
          (proc[p].pc = "upsert" /\ proc[p].role = "user" /\ Stepped(p))
             => /\ Logged(p)
                /\ convState'[PairOf(proc[p])].exists
                /\ convState'[PairOf(proc[p])].lastInteraction # Null
                /\ convState'[PairOf(proc[p])].lastInteraction[1] >= proc[p].ts]_vars

C6_Witness ==
    \E p \in Procs :
        /\ proc[p].pc = "isPaused"
        /\ Logged(p)
        /\ StateOf(p).exists
        /\ StateOf(p).lastInteraction = Str(proc[p].li)
        /\ proc[p].li >= proc[p].ts

\* C7: a saveMessage call that reads a state holding a userName makes no
\* name lookup, and a call that made no lookup leaves the userName as it
\* was
C7_CachedName ==
    [][\A p \in Procs :
          /\ (proc[p].pc = "findState" /\ Stepped(p) /\ Truthy(StateOf(p).userName))
                => /\ proc'[p].pc = "upsert"
                   /\ lookups' = lookups
          /\ (proc[p].pc = "upsert" /\ Stepped(p) /\ proc[p].looked = 0)
                => convState'[PairOf(proc[p])].userName = StateOf(p).userName]_vars

C7_Witness ==
    \E p \in Procs :
        /\ proc[p].pc = "isPaused"
        /\ Truthy(proc[p].token)
        /\ proc[p].looked = 0
        /\ Truthy(StateOf(p).userName)
        /\ lookups[PairOf(proc[p])] = 1
        /\ Cardinality(UserRecordsOf(PairOf(proc[p]))) = 2

C9_LookupFails ==
    [][\A p \in Procs :
          /\ (proc[p].pc = "nameLookup" /\ Stepped(p) /\ proc'[p].name = Null)
                => /\ proc'[p].pc = "upsert"
                   /\ proc'[p].looked = 1
                   /\ Logged(p)
                   /\ UNCHANGED <<messages, convState>>
          /\ (proc[p].pc = "upsert" /\ Stepped(p) /\ proc[p].looked = 1
                /\ proc[p].name = Null)
                => /\ Logged(p)
                   /\ convState'[PairOf(proc[p])].exists
                   /\ convState'[PairOf(proc[p])].lastInteraction = Str(proc[p].li)
                   /\ convState'[PairOf(proc[p])].userName = StateOf(p).userName
                   /\ lookups' = lookups
                   /\ proc'[p].pc = "isPaused"]_vars

C9_Witness ==
    \E p \in Procs :
        /\ proc[p].pc = "isPaused"
        /\ proc[p].looked = 1
        /\ proc[p].name = Null
        /\ Logged(p)
        /\ StateOf(p).exists
        /\ StateOf(p).userName = Null
        /\ StateOf(p).lastInteraction = Str(proc[p].li)

\* the keyword and the response of a rule line: the text before its first
\* delimiter, trimmed and lower-cased, and the text after it, trimmed
RuleKeyword(line) ==
    ToLowerCase(Trim(SubSeq(line, 1, IndexOf(line, Arrow) - 1)))

RuleResponse(line) ==
    Trim(SubSeq(line, IndexOf(line, Arrow) + Len(Arrow), Len(line)))

\* the lines of the rule text that are match rules whose keyword the
\* message contains, by position
MatchingLines(userMsg, rulesText) ==
    LET lines == Split(rulesText, NewLine)
    IN  {i \in 1..Len(lines) :
            /\ Includes(lines[i], Arrow)
            /\ RuleKeyword(lines[i]) \notin {SentinelDefault, SentinelElse}
            /\ Includes(Trim(ToLowerCase(userMsg)), RuleKeyword(lines[i]))}

FirstMatchingLine(userMsg, rulesText) ==
    LET m == MatchingLines(userMsg, rulesText)
    IN  Split(rulesText, NewLine)[CHOOSE i \in m : \A j \in m : i <= j]

ExampleRules == Join(<<LinePrice, LineHello, LineDefault>>, NewLine)

\* C10: getKeywordReply returns the response of the first line, from the
\* top, that has a delimiter, whose keyword is no sentinel and whose
\* lower-cased trimmed keyword occurs in the lower-cased trimmed message,
\* wherever the sentinel lines stand; with the rules price, hello, default
\* the message 'what is the price?' gets the price response and 'xyz' the
\* default response
C10_FirstMatch ==
    call.pc = "returned" =>
        /\ MatchingLines(call.userMsg, call.rulesText) # {}
              => LET response ==
                         RuleResponse(FirstMatchingLine(call.userMsg, call.rulesText))
                 IN  IF response = <<>> THEN ~Truthy(call.result)
                     ELSE call.result = Str(response)
        /\ (call.rulesText = ExampleRules /\ call.userMsg = MsgPrice)
              => call.result = Str(RespPrice)
        /\ (call.rulesText = ExampleRules /\ call.userMsg = MsgXyz)
              => call.result = Str(RespDefault)

\* the lines of the rule text that declare a fallback, by position
FallbackLines(rulesText) ==
    LET lines == Split(rulesText, NewLine)
    IN  {i \in 1..Len(lines) :
            /\ Includes(lines[i], Arrow)
            /\ RuleKeyword(lines[i]) \in {SentinelDefault, SentinelElse}}

\* C11: a match rule whose keyword the message contains determines the
\* result whatever its response text is (an empty response gives no reply,
\* never the fallback), so the fallback is returned only when no match
\* rule's keyword is contained; with no match and no fallback declared the
\* result is no reply
C11_FallbackOnlyWithoutMatch ==
    call.pc = "returned" =>
        LET m == MatchingLines(call.userMsg, call.rulesText)
            f == FallbackLines(call.rulesText)
        IN  /\ (m = {} /\ f = {}) => call.result = Null
            /\ m # {}
                  => \/ ~Truthy(call.result)
                     \/ call.result =
                            Str(RuleResponse(FirstMatchingLine(call.userMsg,
                                                               call.rulesText)))

\* the number of places of a line where the delimiter stands
Delimiters(line) == Cardinality({i \in 1..Len(line) : OccursAt(line, Arrow, i)})

RespPromo ==
    <<"b", "u", "y", " ", "1", " ", "-", ">", " ", "g", "e", "t", " ", "1",
      " ", "f", "r", "e", "e">>

KeywordPromo == <<"p", "r", "o", "m", "o">>

\* C12: of a rule line that holds the delimiter more than once the keyword
\* is the text before the first delimiter and the response the whole
\* remainder with the later delimiters kept: when such a line is the first
\* matching rule its remainder is returned, when it is the last fallback
\* and nothing matches its remainder is returned, and the one-line table
\* 'promo -> buy 1 -> get 1 free' answers 'buy 1 -> get 1 free' exactly to
\* the messages that contain 'promo'
C12_LaterDelimitersKept ==
    call.pc = "returned" =>
        LET lines == Split(call.rulesText, NewLine)
            m     == MatchingLines(call.userMsg, call.rulesText)
            f     == FallbackLines(call.rulesText)
            last  == lines[CHOOSE i \in f : \A j \in f : j <= i]
        IN  /\ (m # {}
                  /\ Delimiters(FirstMatchingLine(call.userMsg, call.rulesText)) > 1)
                  => call.result =
                        Str(RuleResponse(FirstMatchingLine(call.userMsg,
                                                           call.rulesText)))
            /\ (m = {} /\ f # {} /\ Delimiters(last) > 1)
                  => call.result = Str(RuleResponse(last))
            /\ call.rulesText = LinePromo
                  => call.result =
                        IF Includes(ToLowerCase(call.userMsg), KeywordPromo)
                        THEN Str(RespPromo) ELSE Null

\* the promo rule was the first matching rule of a longer table and its
\* whole remainder was returned
C12_Witness ==
    /\ call.pc = "returned"
    /\ call.rulesText = Join(<<LineDefault, LinePromo, LineHello>>, NewLine)
    /\ call.userMsg = MsgHello
    /\ call.result = Str(RespPromo)

DigitSeq == <<"0", "1", "2", "3", "4", "5", "6", "7", "8", "9">>

\* the number a string of digits denotes
RECURSIVE ValueOf(_)
ValueOf(s) ==
    IF s = <<>> THEN 0
    ELSE 10 * ValueOf(SubSeq(s, 1, Len(s) - 1))
            + (CHOOSE n \in 0..9 : DigitSeq[n + 1] = s[Len(s)])

\* the documents stored under the string s, and under the number n
StoredUnderString(s) ==
    {d \in pageTokens : d.Page_ID.type = "string" /\ d.Page_ID.v = s}

StoredUnderNumber(n) ==
    {d \in pageTokens : d.Page_ID.type = "number" /\ ValueOf(d.Page_ID.v) = n}

\* C13: getPageData returns the record stored under the exact string form of
\* the identifier when there is one; otherwise, when the identifier is made
\* of digits only, the record stored under the number it denotes, or
\* not-found when there is none; otherwise not-found; a page stored under
\* the number 100200300 is found when queried with the string "100200300"
C13_GetPageData ==
    call.pc = "returned" =>
        LET s   == call.pageId.v
            str == StoredUnderString(s)
            num == StoredUnderNumber(ValueOf(s))
        IN  /\ IF str # {} THEN call.result \in {Str(d) : d \in str}
               ELSE IF s # <<>> /\ \A i \in 1..Len(s) : s[i] \in Digits
               THEN IF num # {} THEN call.result \in {Str(d) : d \in num}
                    ELSE call.result = Null
               ELSE call.result = Null
            /\ (call.pageId = StringId(ExampleId)
                  /\ \E d \in pageTokens : d.Page_ID = NumberId(ExampleId))
                  => /\ call.result # Null
                     /\ call.result[1].Page_ID = NumberId(ExampleId)

\* the page stored under the number 100200300 was found with the string
C13_Witness ==
    /\ call.pc = "returned"
    /\ call.pageId = StringId(ExampleId)
    /\ call.result = Str(Doc(NumberId(ExampleId), Str(Token), Null, Null))

\* what getPageData finds for an identifier in a registry: the documents
\* under the string, else those under the number
ConfigOf(tokens, id) ==
    LET str == {d \in tokens : d.Page_ID = StringId(id.v)}
        num == {d \in tokens : d.Page_ID = NumberId(id.v)}
    IN  IF str # {} THEN str ELSE num

\* C14: POST /api/pages is a partial update: every document stored before
\* is stored after under the same identifier, with its Access_Token when
\* the request has no token and its System_Prompt when the request has no
\* persona, and in src/index.js the same holds of what a lookup of the page
\* finds; no step of the request changes a message record, a conversation
\* state, a send count or a name-lookup count, or starts a detached save
C14_PartialUpdate ==
    [][\A p \in Procs :
          (proc[p].kind = "pages" \/ proc'[p].kind = "pages")
             => /\ messages' = messages /\ convState' = convState
                /\ sentAuto' = sentAuto /\ sentAdmin' = sentAdmin
                /\ lookups' = lookups /\ detached' = detached
                /\ lastSet' = lastSet
                /\ (proc[p].pc = "pagesUpdate" /\ proc'[p].pc # "pagesUpdate")
                      => LET keepsToken  == ~Truthy(proc[p].token)
                             keepsPrompt == ~proc[p].persona.given
                             Kept(d, e) ==
                                /\ keepsToken => e.Access_Token = d.Access_Token
                                /\ keepsPrompt => e.System_Prompt = d.System_Prompt
                         IN  /\ \A d \in pageTokens :
                                   \E e \in pageTokens' :
                                      e.Page_ID = d.Page_ID /\ Kept(d, e)
                             /\ revision = "generative"
                                   => \A d \in ConfigOf(pageTokens, proc[p].pageId) :
                                         \E e \in ConfigOf(pageTokens', proc[p].pageId) :
                                            Kept(d, e)
                /\ proc[p].pc # "pagesUpdate" => pageTokens' = pageTokens]_vars

\* a request without token and with a persona has updated the legacy
\* document: the credential is the one stored before, the rules are new
C14_Witness ==
    /\ \A p \in Procs : proc[p].kind = "idle"
    /\ \E d \in pageTokens :
          /\ d.Page_Name = Str(NewName)
          /\ d.Access_Token = Str(Token)
          /\ d.System_Prompt = Str(RulesNoDefault)

\* C15: when POST /api/pages has written, the document a lookup of the
\* page finds, which holds the page's configuration, is stored under the
\* identifier in string form, whatever the registry held before
C15_StringIdentifier ==
    [][\A p \in Procs :
          (proc[p].pc = "pagesUpdate" /\ proc'[p].pc # "pagesUpdate")
             => /\ ConfigOf(pageTokens', proc[p].pageId) # {}
                /\ \A d \in ConfigOf(pageTokens', proc[p].pageId) :
                      d.Page_ID = ToString(proc[p].pageId)]_vars

\* C16: a toggle-ai call with paused = true leaves the pair with one
\* conversation state whose flag is true, and when the latest toggle-ai call
\* for the pair was already one with paused = true the call changes no
\* conversation state at all: the second call leaves what the first left
C16_SetPausedIdempotent ==
    [][\A pg \in PageIds, u \in env.users :
          ToggleAi(pg, u, TRUE)
             => LET pr == <<ToString(pg), ToString(u)>>
                IN  /\ convState'[pr].exists
                    /\ convState'[pr].aiPaused = TRUE
                    /\ lastSet[pr] = Str(TRUE) => convState' = convState
                    /\ messages' = messages]_vars

\* two toggle-ai calls were the only requests, both for the same pair and
\* the later one with paused = true; the pair's state is the one a single
\* call leaves
C16_Witness ==
    /\ revision = "generative"
    /\ requests = 2
    /\ messages = <<>>
    /\ \A p \in Procs : proc[p] = IdleProc
    /\ \E pr \in Pairs :
          /\ lastSet[pr] = Str(TRUE)
          /\ convState[pr] = Toggled(NoState, TRUE)
          /\ \A other \in Pairs \ {pr} : lastSet[other] = Null

\* C17: isAiPaused answers false for a pair without conversation state and
\* for a pair whose state no toggle-ai call has touched, so that it was
\* created by a saved message: the ai-status request answers paused = false,
\* and the webhook handler goes on to its reply steps
C17_DefaultNotPaused ==
    [][ /\ \A p \in Procs, pg \in PageIds, u \in env.users :
             (/\ AiStatus(p, pg, u)
              /\ \/ ~convState[<<pg, u>>].exists
                 \/ lastSet[<<pg, u>>] = Null)
                => proc'[p].paused = Str(FALSE)
        /\ \A p \in Procs :
             (/\ proc[p].pc = "isPaused"
              /\ proc'[p] # proc[p]
              /\ lastSet[PairOf(proc[p])] = Null)
                => proc'[p] = ReplySteps(proc[p])]_vars

\* an ai-status request has answered false for a pair whose state an
\* inbound message created and no toggle touched
C17_Witness ==
    \E p \in Procs :
        /\ proc[p].status = 200
        /\ proc[p].paused = Str(FALSE)
        /\ convState[PairOf(proc[p])].exists
        /\ lastSet[PairOf(proc[p])] = Null
        /\ UserRecordsOf(PairOf(proc[p])) # {}

\* C18: a toggle-ai call leaves a conversation state for the pair, and an
\* ai-status request for a pair answers the value of the latest toggle-ai
\* call for that pair, in whichever encoding, string or number, the request
\* body of the toggle carried the identifiers
C18_ReadAfterToggle ==
    [][ /\ \A pg \in TypedIds(PageIds), u \in TypedIds(env.users), b \in BOOLEAN :
             ToggleAi(pg, u, b)
                => \E key \in StateKeys :
                      /\ <<ToString(key[1]), ToString(key[2])>>
                            = <<ToString(pg), ToString(u)>>
                      /\ convState'[key].exists
        /\ \A p \in Procs, pg \in PageIds, u \in env.users :
             (AiStatus(p, pg, u) /\ lastSet[<<pg, u>>] # Null)
                => proc'[p].paused = lastSet[<<pg, u>>]]_vars

\* the credential the running revision reads from a document
CredentialOf(d) ==
    IF revision = "keyword" THEN OrElse(d.Access_Token, d.access_token)
    ELSE d.Access_Token

\* the page is unknown, or its document holds no credential
NoCredential(pg) ==
    \A d \in ConfigOf(pageTokens, pg) : ~Truthy(CredentialOf(d))

\* C19: for a page without credential the webhook handler never stands at a
\* generation call or at a send, has computed no keyword reply and runs no
\* detached save, no automated reply was sent, no name lookup was made, and
\* no record of an automated reply is stored
C19_NoCredentialNoReply ==
    \A pg \in PageIds :
        NoCredential(pg) =>
            /\ \A u \in UserIds :
                  /\ sentAuto[<<pg, u>>] = 0
                  /\ lookups[<<pg, u>>] = 0
            /\ \A i \in 1..Len(messages) :
                  messages[i].pageId = pg => messages[i].sender \notin {"ai", "bot"}
            /\ \A p \in Procs :
                  (proc[p].kind = "webhook" /\ ToString(proc[p].pageId) = pg)
                     => /\ proc[p].pc \notin {"generate", "send", "nameLookup"}
                        /\ proc[p].reply = Null
                        /\ proc[p].role \notin {"ai", "bot"}
            /\ detached = <<>>

\* an inbound message for a page without credential was saved and its
\* handling has ended
C19_Witness ==
    /\ \A p \in Procs : proc[p].kind = "idle"
    /\ \E pr \in Pairs :
          /\ NoCredential(pr[1])
          /\ UserRecordsOf(pr) # {}
          /\ convState[pr].exists
          /\ lastSet[pr] = Null

\* the positions of a manual reply before its saveMessage call
BeforeAdminSave == {"getPageStr", "getPageNum", "adminSend"}

\* C20: a manual reply whose page has no credential ends with status 400
\* after the page lookup, one whose send fails ends with status 500, and a
\* manual reply that ends with an error status has not reached saveMessage:
\* none of its steps has changed a message record or a conversation state
C20_FailedReplyLeavesNoTrace ==
    [][\A p \in Procs :
          (proc[p].kind = "reply" /\ proc'[p] # proc[p])
             => /\ proc[p].pc \in BeforeAdminSave
                   => /\ messages' = messages
                      /\ convState' = convState
                /\ (proc[p].pc = "adminSend" /\ sentAdmin' = sentAdmin)
                   => proc'[p] = Responded(500)
                /\ (/\ proc[p].pc \in {"getPageStr", "getPageNum"}
                    /\ proc'[p].pc # "getPageNum"
                    /\ NoCredential(ToString(proc[p].pageId)))
                   => proc'[p] = Responded(400)
                /\ proc'[p].status \in {400, 500}
                   => proc[p].pc \in BeforeAdminSave]_vars

\* a manual reply has ended with status 500 in a conversation that holds
\* the end-user's message and no record of a human operator
C20_Witness ==
    /\ \E p \in Procs : proc[p].status = 500
    /\ messages # <<>>
    /\ \A i \in 1..Len(messages) : messages[i].sender = "user"
    /\ \A pr \in Pairs : sentAdmin[pr] = 0

\* the records of automated replies stored for a pair
AutoRecordsOf(pr) ==
    {i \in 1..Len(messages) :
        /\ messages[i].pageId = pr[1] /\ messages[i].userId = pr[2]
        /\ messages[i].sender \in {"ai", "bot"}}

\* C21: when the send of an automated reply fails, the step appends no
\* record and starts no save, and the handler stands in its loop again with
\* nothing left of the reply, ready for the next event of the delivery
C21_SendFailureSwallowed ==
    [][\A p \in Procs :
          (/\ proc[p].kind = "webhook" /\ proc[p].pc = "send"
           /\ proc'[p] # proc[p]
           /\ sentAuto' = sentAuto)
             => /\ messages' = messages
                /\ detached' = detached
                /\ convState' = convState
                /\ proc'[p] = PopEvent(proc[p])
                /\ proc'[p].kind = "webhook" /\ proc'[p].pc = "loop"
                /\ proc'[p].reply = Null]_vars

\* in the keyword revision both events got a reply from the rules; no send
\* succeeded, no automated record is stored, and the event after the failed
\* send was handled: the pair has two end-user records
C21_Witness ==
    /\ revision = "keyword"
    /\ \A p \in Procs : proc[p].kind = "idle"
    /\ detached = <<>>
    /\ \E pr \in Pairs :
          /\ ~NoCredential(pr[1])
          /\ \E d \in pageTokens : d.System_Prompt = Str(RulesWithDefault)
          /\ lastSet[pr] = Null
          /\ Cardinality(UserRecordsOf(pr)) = 2
          /\ AutoRecordsOf(pr) = {}
          /\ sentAuto[pr] = 0

\* C22: the step that takes a delivery up answers it with status 200 and
\* does nothing else: it looks no page up, writes nothing, looks no name up
\* and sends nothing; every later step of the handler finds the delivery
\* answered, and leaves it answered however the step ends
C22_AcknowledgedFirst ==
    [][\A p \in Procs :
          ((proc[p].kind = "webhook" \/ proc'[p].kind = "webhook")
              /\ proc'[p] # proc[p])
             => IF proc[p].kind # "webhook"
                THEN /\ proc'[p].status = 200
                     /\ proc'[p].pc = "loop"
                     /\ proc'[p].pageData = Null
                     /\ UNCHANGED <<pageTokens, messages, convState, clock,
                                    detached, lookups, sentAuto, sentAdmin>>
                ELSE /\ proc[p].status = 200
                     /\ proc'[p].kind = "webhook" => proc'[p].status = 200]_vars

\* an acknowledged delivery whose first event is about to be looked up:
\* nothing has been read, written or sent
C22_Witness ==
    \E p \in Procs :
        /\ proc[p].kind = "webhook"
        /\ proc[p].status = 200
        /\ proc[p].pc = "getPageStr"
        /\ messages = <<>>
        /\ clock = 0
        /\ \A pr \in Pairs : lookups[pr] = 0 /\ sentAuto[pr] = 0

\* the stored records with the content of the record r, whatever their time
SameAs(log, r) ==
    {i \in 1..Len(log) :
        [log[i] EXCEPT !.timestamp = 0] = [r EXCEPT !.timestamp = 0]}

\* C23: nothing is deduplicated: the insert of saveMessage appends its
\* record also when records of the same content are stored, an event of
\* src/index.js is left with its end-user record inserted whatever the log
\* held, and a send that succeeds counts as one more reply and is followed
\* by the save of its automated record, however many were sent before
C23_NoDeduplication ==
    [][\A p \in Procs :
          /\ (proc[p].pc = "insert" /\ Stepped(p))
                => LET r == MessageRecord(proc[p], Now)
                   IN  /\ messages' = Append(messages, r)
                       /\ Cardinality(SameAs(messages', r))
                             = Cardinality(SameAs(messages, r)) + 1
          /\ (revision = "generative" /\ InEvent(p) /\ proc'[p].pc = "loop")
                => proc[p].logged = 1
          /\ (proc[p].kind = "webhook" /\ proc[p].pc = "send"
                 /\ Stepped(p) /\ sentAuto' # sentAuto)
                => /\ sentAuto'[PairOf(proc[p])] = sentAuto[PairOf(proc[p])] + 1
                   /\ \/ /\ proc'[p].pc = "insert"
                         /\ proc'[p].role = "ai"
                         /\ proc'[p].text = proc[p].reply[1]
                      \/ /\ Len(detached') = Len(detached) + 1
                         /\ detached'[Len(detached')].role = "bot"
                         /\ detached'[Len(detached')].pc = "insert"]_vars

\* the same event was handled twice in src/index.js: two end-user records
\* of the same content, two replies sent, two automated records
C23_Witness ==
    /\ revision = "generative"
    /\ \A p \in Procs : proc[p].kind = "idle"
    /\ \E pr \in Pairs :
          /\ Cardinality(UserRecordsOf(pr)) = 2
          /\ \A i, j \in UserRecordsOf(pr) : messages[i].text = messages[j].text
          /\ sentAuto[pr] = 2
          /\ Cardinality(AutoRecordsOf(pr)) = 2

\* C24: no failure of an external dependency during a webhook delivery
\* leaves the handler as an uncaught exception: a step at which the database
\* fails leaves the handler inside its delivery, where it takes up the
\* remaining events, and no handler is ever left by an uncaught rejection
C24_NoUncaughtFailure ==
    [][\A p \in Procs :
          (proc[p].kind = "webhook" /\ Stepped(p))
             => /\ proc'[p].pc # "uncaught"
                /\ (GetPageFails(p) \/ SaveFails(p) \/ IsAiPausedFails(p))
                      => proc'[p].kind = "webhook"]_vars


\* C25: when every model of the list has failed, generateAIResponse returns
\* no text, and the handler sends nothing to the end user, appends no
\* automated-reply record and goes on with the next event; a reply is sent
\* only with the text a model returned
C25_AllModelsFail ==
    [][\A p \in Procs :
          (revision = "fallback" /\ proc[p].pc = "generate" /\ Stepped(p))
             => /\ proc'[p].pc \in {"generate", "send", "loop"}
                /\ proc'[p].pc = "send" => proc'[p].reply = Str(AiText)
                /\ proc'[p].pc = "generate"
                      => proc'[p].calls <= maxAttempts * Len(DEFAULT_MODELS)
                /\ proc'[p].pc = "loop"
                      => /\ proc[p].model = Len(DEFAULT_MODELS)
                         /\ proc'[p].reply = Null
                         /\ proc'[p].kind = "webhook"
                         /\ UNCHANGED <<messages, detached, convState,
                                        sentAuto>>
                /\ (proc[p].model = Len(DEFAULT_MODELS)
                       /\ proc[p].attempts = maxAttempts - 1
                       /\ proc'[p].pc # "send")
                      => proc'[p].pc = "loop"]_vars

\* every call of every model has failed: the handler is back in its loop,
\* the end-user message is stored, nothing was sent and no automated record
\* exists
C25_Witness ==
    /\ revision = "fallback"
    /\ detached = <<>>
    /\ \E p \in Procs :
          /\ proc[p].kind = "webhook" /\ proc[p].pc = "loop"
          /\ proc[p].model = Len(DEFAULT_MODELS)
          /\ proc[p].calls = maxAttempts * Len(DEFAULT_MODELS)
    /\ \E pr \in Pairs :
          /\ Cardinality(UserRecordsOf(pr)) = 1
          /\ AutoRecordsOf(pr) = {}
          /\ sentAuto[pr] = 0
    /\ Len(messages) = 1


\* C30: generateAIResponse always terminates, whatever the outcomes of its
\* generateContent calls (text, empty text, rate-limit error, other error,
\* no response): no model is tried more than 2 times, no more than
\* 2 x (number of models) calls are made, and a handler that waits for
\* generateAIResponse gets its result
C30_GenerateTerminates ==
    /\ [](\A p \in Procs :
             /\ proc[p].attempts <= 2
             /\ proc[p].calls <= 2 * Len(DEFAULT_MODELS)
             /\ proc[p].pc = "generate"
                   => /\ proc[p].model \in 1..Len(DEFAULT_MODELS)
                      /\ proc[p].attempts < 2
                      /\ proc[p].calls <= 2 * (proc[p].model - 1) + proc[p].attempts)
    /\ \A p \in Procs :
          (proc[p].pc = "generate") ~> (proc[p].pc # "generate")

\* the last call the loops allow, the second of the last model, returned a
\* text after seven calls without one
C30_Witness ==
    /\ revision = "fallback"
    /\ \E p \in Procs :
          /\ proc[p].pc = "send"
          /\ proc[p].reply = Str(AiText)
          /\ proc[p].model = Len(DEFAULT_MODELS)
          /\ proc[p].attempts = 2
          /\ proc[p].calls = 2 * Len(DEFAULT_MODELS)


\* C26: the message log is append-only: every step leaves the records
\* stored before it unchanged and in place, adding records only at the end,
\* and every record's sender is 'user', 'ai', 'bot' or 'admin'
C26_AppendOnlyLog ==
    [][ /\ Len(messages') >= Len(messages)
        /\ SubSeq(messages', 1, Len(messages)) = messages
        /\ \A i \in 1..Len(messages') :
              messages'[i].sender \in {"user", "ai", "bot", "admin"}]_vars

\* a log with an end-user record, an automated record after it and an
\* operator's record after that
C26_Witness ==
    \E i, j, k \in 1..Len(messages) :
       /\ i < j /\ j < k
       /\ messages[i].sender = "user"
       /\ messages[j].sender \in {"ai", "bot"}
       /\ messages[k].sender = "admin"


\* C27: GET /api/inbox/conversations answers conversation states in
\* non-increasing order of last-interaction (states that have none come
\* after those that have one), and GET /api/inbox/messages answers only
\* records of the requested (page, user) pair, in non-decreasing order of
\* timestamp
C27_ListsOrdered ==
    [][ /\ \A p \in Procs :
             InboxConversations(p)
                => LET list == proc'[p].list
                   IN  \A i, j \in 1..Len(list) :
                          (i < j /\ list[j].lastInteraction # Null)
                             => /\ list[i].lastInteraction # Null
                                /\ list[i].lastInteraction[1]
                                      >= list[j].lastInteraction[1]
        /\ \A p \in Procs, pg \in PageIds, u \in env.users :
             InboxMessages(p, pg, u)
                => LET list == proc'[p].list
                   IN  /\ \A i \in 1..Len(list) :
                             /\ list[i].pageId = ToString(pg)
                             /\ list[i].userId = ToString(u)
                       /\ \A i, j \in 1..Len(list) :
                             i < j => list[i].timestamp <= list[j].timestamp]_vars

\* the answer of GET /api/inbox/conversations lists two conversations, the
\* one that was written to last first, while the message log holds the
\* records of both
C27_Witness ==
    \E p \in Procs :
       /\ proc[p].status = 200
       /\ proc[p].pageId = NoId
       /\ Len(proc[p].list) = 2
       /\ proc[p].list[1].lastInteraction # Null
       /\ proc[p].list[2].lastInteraction # Null
       /\ proc[p].list[1].lastInteraction[1] > proc[p].list[2].lastInteraction[1]
       /\ \A i \in 1..2 :
             \E k \in 1..Len(messages) :
                /\ messages[k].pageId = ToString(proc[p].list[i].pageId)
                /\ messages[k].userId = ToString(proc[p].list[i].userId)
       /\ messages[1].pageId = ToString(proc[p].list[2].pageId)


\* C28: under any interleaving of the handling of inbound messages and of
\* manual replies for the same (page, user) pair, the stored last-interaction
\* of the pair never decreases from one state to the next
C28_LastInteractionMonotonic ==
    [][\A k \in StateKeys :
          convState[k].lastInteraction # Null
             => /\ convState'[k].lastInteraction # Null
                /\ convState'[k].lastInteraction[1]
                      >= convState[k].lastInteraction[1]]_vars


\* C29: under any interleaving of toggle-ai calls with the handling of
\* inbound messages, no automated reply is sent to a (page, user) pair at a
\* moment when the stored pause flag of the pair is true: the step in which
\* a handler makes its send call starts with the flag not set
C29_NoSendWhilePaused ==
    [][\A p \in Procs :
          (proc[p].kind = "webhook" /\ proc[p].pc # "send"
              /\ proc'[p].pc = "send")
             => ~(convState[PairOf(proc[p])].exists
                     /\ convState[PairOf(proc[p])].aiPaused)]_vars

\* C31: in generateAIResponse a second attempt on the same model is made
\* only after the first attempt failed with a rate-limit error and only
\* after the backoff sleep; after any other outcome without text the next
\* call goes to the next model of the list
C31_RetryOnlyOnRateLimit ==
    [][\A p \in Procs :
          (revision = "fallback" /\ proc[p].pc = "generate" /\ Stepped(p)
              /\ proc'[p].pc = "generate")
             => IF proc'[p].model = proc[p].model
                THEN /\ proc'[p].outcome = "rateLimit"
                     /\ proc'[p].slept
                     /\ proc'[p].attempts = 1
                ELSE /\ proc'[p].model = proc[p].model + 1
                     /\ proc'[p].attempts = 0]_vars


\* C32: generateAIResponse tries the models in the order of the list,
\* starting with the first; the first call that yields a text ends it with
\* that text and no further call is made; a model is tried only after each
\* model before it was called and gave no text
C32_ModelsInOrder ==
    [][\A p \in Procs :
          revision = "fallback"
             => /\ (proc[p].pc # "generate" /\ proc'[p].pc = "generate")
                      => /\ proc'[p].model = 1
                         /\ proc'[p].calls = 0
                /\ (proc[p].pc = "generate" /\ Stepped(p))
                      => /\ proc'[p].calls = proc[p].calls + 1
                         /\ proc'[p].outcome = "text"
                               <=> proc'[p].pc = "send"
                         /\ proc'[p].pc = "send"
                               => /\ proc'[p].reply = Str(AiText)
                                  /\ proc'[p].model = proc[p].model
                         /\ proc'[p].pc = "generate"
                               => /\ proc'[p].model
                                        \in {proc[p].model, proc[p].model + 1}
                                  /\ proc'[p].calls >= proc'[p].model - 1
                /\ (proc[p].pc = "send" /\ Stepped(p))
                      => /\ proc'[p].pc # "generate"
                         /\ proc'[p].calls = 0]_vars

\* the third model of the list returned a text after the two before it had
\* been called without one, and the handler is about to send that text
C32_Witness ==
    /\ revision = "fallback"
    /\ \E p \in Procs :
          /\ proc[p].pc = "send"
          /\ proc[p].outcome = "text"
          /\ proc[p].model = 3
          /\ proc[p].attempts = 1
          /\ proc[p].calls = 3
          /\ proc[p].reply = Str(AiText)


\* C33: whenever POST /api/inbox/reply answers success, the send to the
\* platform succeeded and a record with sender 'admin', the sent text and
\* the (page, user) pair of the request is in the message log
C33_SuccessMeansRecorded ==
    [][\A p \in Procs :
          (proc[p].kind = "reply" /\ Stepped(p) /\ proc'[p].status = 200)
             => /\ sentAdmin'[PairOf(proc[p])] > 0
                /\ \E i \in 1..Len(messages') :
                      /\ messages'[i].sender = "admin"
                      /\ messages'[i].text = proc[p].text
                      /\ messages'[i].pageId = ToString(proc[p].pageId)
                      /\ messages'[i].userId = ToString(proc[p].userId)]_vars


\* C34: within one delivery the events are handled one at a time, and the
\* automated-reply record of an event is appended before the end-user
\* record of any later event of the same delivery: when a handler whose
\* delivery brought every event so far appends an end-user record, no
\* record of a reply it sent is still waiting to be inserted
C34_ReplyRecordedBeforeNextEvent ==
    [][\A p \in Procs :
          /\ proc'[p].handled > proc[p].handled
                => /\ proc[p].pc = "loop"
                   /\ proc'[p].handled = proc[p].handled + 1
          /\ (proc[p].kind = "webhook" /\ proc[p].pc = "insert"
                 /\ proc[p].role = "user" /\ Stepped(p)
                 /\ Len(messages') > Len(messages)
                 /\ proc[p].handled = requests)
                => \A i \in 1..Len(detached) : detached[i].pc # "insert"]_vars


\* C35: after any sequence of POST /api/pages calls, starting from a
\* registry that may hold a legacy numeric-typed record, the registry holds
\* at most one record per page identifier, the string and the number of the
\* same digits counting as one identifier
C35_OneRecordPerPage ==
    \A d, e \in pageTokens :
       ToString(d.Page_ID) = ToString(e.Page_ID) => d = e


\* C36: when the read of the conversation state fails inside isAiPaused,
\* the function returns false without raising: the handler stays in its
\* delivery and goes on to the reply steps as for a conversation that is not
\* paused, whatever flag is stored
C36_FailedReadMeansNotPaused ==
    [][\A p \in Procs :
          IsAiPausedFails(p)
             => /\ proc'[p].kind = "webhook"
                /\ proc'[p] = ReplySteps(proc[p])
                /\ (revision # "keyword" /\ proc[p].pageData # Null
                       /\ Truthy(proc[p].pageData[1].Access_Token))
                      => proc'[p].pc = "generate"
                /\ UNCHANGED <<messages, convState, detached, sentAuto>>]_vars

\* a handler stands at its generation call or at its send for a pair whose
\* stored flag is set: the read of the flag had failed
C36_Witness ==
    \E p \in Procs :
       /\ proc[p].kind = "webhook"
       /\ proc[p].pc \in {"generate", "send"}
       /\ StateOf(p).exists /\ StateOf(p).aiPaused


\* the rule text without its rule lines whose keyword is empty after
\* trimming
WithoutEmptyKeywords(rulesText) ==
    LET Kept(line) == ~(Includes(line, Arrow) /\ RuleKeyword(line) = <<>>)
    IN  Join(SelectSeq(Split(rulesText, NewLine), Kept), NewLine)

\* C37: a rule line whose keyword is empty after trimming is skipped by
\* getKeywordReply: the reply to a message is the reply the rule text
\* without such lines gives
C37_EmptyKeywordSkipped ==
    call.pc = "returned"
       => call.result = getKeywordReply(call.userMsg,
                                        WithoutEmptyKeywords(call.rulesText))


\* C38: for every (page, user) pair and every length of its message log,
\* the history GET /api/inbox/messages answers holds the record of the pair
\* that was appended last
C38_HistoryHasLatest ==
    [][\A p \in Procs, pg \in PageIds, u \in env.users :
          (InboxMessages(p, pg, u) /\ RecordsOf(<<pg, u>>) # {})
             => LET latest == CHOOSE i \in RecordsOf(<<pg, u>>) :
                                 \A j \in RecordsOf(<<pg, u>>) : j <= i
                IN  \E k \in 1..Len(proc'[p].list) :
                       proc'[p].list[k] = messages[latest]]_vars


====
